---------------------------- MODULE Spec2Model ----------------------------
(***************************************************************************)
(* A model of tomquist/hmjs: the frame codec and message parser of         *)
(* packages/protocol/src/HMDeviceProtocol.ts, and the device session       *)
(* manager BLEDeviceManager of packages/ble/src.                           *)
(*                                                                         *)
(* Byte buffers are sequences of naturals in 0..255.  Source offsets are   *)
(* 0-based; At(buf, off) reads the byte at a 0-based offset.               *)
(***************************************************************************)
EXTENDS Naturals, Integers, Sequences, FiniteSets, TLC

(***************************************************************************)
(* Protocol constants                                                      *)
(***************************************************************************)
START_BYTE == 115
IDENTIFIER_BYTE == 35
RUNTIME_INFO == 3
DEVICE_INFO == 4
CELL_INFO == 15
SET_WIFI == 5
SET_MQTT == 32
RESET_MQTT == 33

INVALID_START_BYTE == "Invalid start byte"
INVALID_LENGTH == "Invalid length"
CHECKSUM_MISMATCH == "Checksum mismatch"
UNKNOWN_COMMAND == "Unknown command"

\* A Uint8Array element holds its value modulo 256.
ByteModulus == 256
\* The characters the parser looks for, as UTF-8 bytes.
Underscore == 95
Comma == 44
EqualsSign == 61
Digit0 == 48
Digit9 == 57

(***************************************************************************)
(* Bounds of the checked instances                                         *)
(***************************************************************************)
\* Payloads over PayloadBytes are enumerated in full up to this length.
MaxShortLen == 2
\* Patterned payloads are enumerated for every length up to this one.
MaxPayloadLen == 252
\* Received buffers over BufBytes are enumerated in full up to this length.
MaxBufLen == 5
\* Underscores in a received text buffer: 0..MaxUnderscores
MaxUnderscores == 17
\* Digits after the last underscore of a received text buffer: 0..MaxPad
MaxPad == 4
\* The longest frame of which single bytes are changed
MaxChangedLen == 8
\* Cell voltages in the text of a cell-info frame: 0..MaxCells
MaxCells == 7
\* Pairs in the text of a device-info frame: 0..MaxPairs
MaxPairs == 3

(***************************************************************************)
(* Byte arithmetic                                                         *)
(***************************************************************************)
RECURSIVE BitXor(_, _)
\* The ^ operator of the source on non-negative integers.
BitXor(a, b) ==
    IF a = 0 THEN b
    ELSE IF b = 0 THEN a
    ELSE ((((a % 2) + (b % 2)) % 2) + (2 * BitXor(a \div 2, b \div 2)))

RECURSIVE BitAnd(_, _)
\* The & operator of the source on non-negative integers.
BitAnd(a, b) ==
    IF a = 0 \/ b = 0 THEN 0
    ELSE (((a % 2) * (b % 2)) + (2 * BitAnd(a \div 2, b \div 2)))

RECURSIVE XorRange(_, _, _)
\* The XOR of bytes[lo..hi].  ^ is associative with identity 0, so the left
\* fold of the source equals the XOR of the folds of the two halves; the
\* halving keeps the evaluation shallow on long buffers.
XorRange(bytes, lo, hi) ==
    IF lo > hi THEN 0
    ELSE IF lo = hi THEN BitXor(0, bytes[lo])
    ELSE LET mid == (lo + hi) \div 2
         IN  BitXor(XorRange(bytes, lo, mid), XorRange(bytes, mid + 1, hi))

\* bytes.reduce((xor, byte) => xor ^ byte, 0)
XorReduce(bytes) == XorRange(bytes, 1, Len(bytes))

\* new Uint8Array(numbers): every element is stored modulo 256.
ToUint8Array(numbers) == [i \in 1..Len(numbers) |-> numbers[i] % ByteModulus]

\* 0-based element access, as message[off] / dataView.getUint8(off).
At(buf, off) == buf[off + 1]
\* DataView.getUint8(off) throws a RangeError outside 0..byteLength-1.
InRange(buf, off) == off >= 0 /\ off < Len(buf)

\* message.slice(0, -1)
DropLast(buf) == IF Len(buf) = 0 THEN <<>> ELSE SubSeq(buf, 1, Len(buf) - 1)

(***************************************************************************)
(* FrameCodec                                                              *)
(***************************************************************************)
calculateChecksum(bytes) == XorReduce(bytes)

\* Mutant: the length byte leaves out the checksum byte.
createCommandMessage_LengthWithoutChecksum(commandType, payloadArray) ==
    LET header0 == <<START_BYTE, 0, IDENTIFIER_BYTE, commandType>>
        messageLength == Len(header0) + Len(payloadArray)
        header == [header0 EXCEPT ![2] = messageLength]
        message == header \o payloadArray
        checksum == XorReduce(message)
    IN  ToUint8Array(Append(message, checksum))

\* Mutant: the checksum is computed before the length byte is set.
createCommandMessage_ChecksumBeforeLength(commandType, payloadArray) ==
    LET header0 == <<START_BYTE, 0, IDENTIFIER_BYTE, commandType>>
        messageLength == Len(header0) + Len(payloadArray) + 1
        header == [header0 EXCEPT ![2] = messageLength]
        message == header \o payloadArray
        checksum == XorReduce(header0 \o payloadArray)
    IN  ToUint8Array(Append(message, checksum))

createCommandMessage(commandType, payloadArray) ==
    LET header0 == <<START_BYTE, 0, IDENTIFIER_BYTE, commandType>>
        messageLength == Len(header0) + Len(payloadArray) + 1
        header == [header0 EXCEPT ![2] = messageLength]
        message == header \o payloadArray
        checksum == XorReduce(message)
    IN  ToUint8Array(Append(message, checksum))

\* Mutant: the identifier byte is not checked.
isValidMessage_NoIdentifierCheck(message) ==
    IF Len(message) < 5 THEN FALSE
    ELSE IF At(message, 0) # START_BYTE THEN FALSE
    ELSE IF At(message, 1) # Len(message) THEN FALSE
    ELSE calculateChecksum(DropLast(message)) = At(message, Len(message) - 1)

\* A variant of the model, for the sensitivity of the properties: a checksum
\* compared without its top bit.
isValidMessage_LowBitsOfChecksum(message) ==
    IF Len(message) < 5 THEN FALSE
    ELSE IF At(message, 0) # START_BYTE THEN FALSE
    ELSE IF At(message, 1) # Len(message) THEN FALSE
    ELSE IF At(message, 2) # IDENTIFIER_BYTE THEN FALSE
    ELSE calculateChecksum(DropLast(message)) % 128
            = At(message, Len(message) - 1) % 128

isValidMessage(message) ==
    IF Len(message) < 5 THEN FALSE
    ELSE IF At(message, 0) # START_BYTE THEN FALSE
    ELSE IF At(message, 1) # Len(message) THEN FALSE
    ELSE IF At(message, 2) # IDENTIFIER_BYTE THEN FALSE
    ELSE calculateChecksum(DropLast(message)) = At(message, Len(message) - 1)

(***************************************************************************)
(* MessageParser                                                           *)
(*                                                                         *)
(* TextDecoder("utf-8") never throws, and the bytes the parser searches    *)
(* for are ASCII: an ASCII byte always decodes to its own character, so    *)
(* the text operations are modelled on the bytes.  A nullable result is a  *)
(* sequence: <<>> for null, <<v>> for the value v.  parseInt's NaN is NaN. *)
(***************************************************************************)
\* The type tag "unknown" of ParsedMessage (the other tags are opcodes).
UNKNOWN_TYPE == -1
\* parseInt(s, 10) of a string holding no digits.
NaN == -1

Null == <<>>
Some(v) == <<v>>

\* (dataStr.match(/_/g) || []).length
CountByte(buf, b) == Cardinality({i \in 1..Len(buf) : buf[i] = b})

\* A variant of the model, for the sensitivity of the properties: the count
\* of sixteen alone.
isValidCellInfoMessage_Only16(message) ==
    IF Len(message) < 10 THEN FALSE
    ELSE CountByte(message, Underscore) = 16

isValidCellInfoMessage(message) ==
    IF Len(message) < 10 THEN FALSE
    ELSE LET underscoreCount == CountByte(message, Underscore)
         IN  underscoreCount = 16 \/ underscoreCount = 3

\* A character of the class [0-9_].
IsCellChar(b) == (b >= Digit0 /\ b <= Digit9) \/ b = Underscore

\* responseStr.match(/[0-9_]+/): the first maximal run of [0-9_], or null.
MatchCellData(str) ==
    LET starts == {i \in 1..Len(str) : IsCellChar(str[i])}
    IN  IF starts = {} THEN Null
        ELSE LET first == CHOOSE i \in starts : \A j \in starts : i <= j
                 ends == {j \in first..Len(str) :
                            /\ \A k \in first..j : IsCellChar(str[k])
                            /\ (j = Len(str) \/ ~IsCellChar(str[j + 1]))}
                 last == CHOOSE j \in ends : \A k \in ends : j <= k
             IN  Some(SubSeq(str, first, last))

RECURSIVE SplitBy(_, _)
\* str.split(sep) for a one-character separator: always at least one part.
SplitBy(str, sep) ==
    LET hits == {i \in 1..Len(str) : str[i] = sep}
    IN  IF hits = {} THEN <<str>>
        ELSE LET i == CHOOSE h \in hits : \A g \in hits : h <= g
             IN  <<SubSeq(str, 1, i - 1)>> \o SplitBy(SubSeq(str, i + 1, Len(str)), sep)

IsDigit(b) == b >= Digit0 /\ b <= Digit9

RECURSIVE DigitsValue(_, _)
DigitsValue(str, acc) ==
    IF str = <<>> \/ ~IsDigit(Head(str)) THEN acc
    ELSE DigitsValue(Tail(str), (acc * 10) + (Head(str) - Digit0))

\* parseInt(str, 10) on a string of the class [0-9]*: NaN when it is empty.
parseInt(str) ==
    IF str = <<>> \/ ~IsDigit(Head(str)) THEN NaN ELSE DigitsValue(str, 0)

RECURSIVE CellVoltages(_, _)
\* for (i = 3; i < parts.length; i++) push parseInt(parts[i]) unless NaN
CellVoltages(parts, i) ==
    IF i > Len(parts) THEN <<>>
    ELSE LET voltage == parseInt(parts[i])
         IN  (IF voltage # NaN THEN <<voltage>> ELSE <<>>) \o CellVoltages(parts, i + 1)

parseCellInfo(message) ==
    LET dataMatch == MatchCellData(message)
    IN  IF dataMatch = Null THEN Null
        ELSE LET parts == SplitBy(dataMatch[1], Underscore)
             IN  IF Len(parts) < 3 THEN Null
                 ELSE Some([soc |-> parseInt(parts[1]),
                            temperature1 |-> parseInt(parts[2]),
                            temperature2 |-> parseInt(parts[3]),
                            cellVoltages |-> CellVoltages(parts, 4)])

\* The ASCII white space String.prototype.trim removes.
IsSpace(b) == b \in {9, 10, 11, 12, 13, 32}

RECURSIVE TrimLeft(_)
TrimLeft(str) ==
    IF str # <<>> /\ IsSpace(Head(str)) THEN TrimLeft(Tail(str)) ELSE str

RECURSIVE TrimRight(_)
TrimRight(str) ==
    IF str # <<>> /\ IsSpace(str[Len(str)]) THEN TrimRight(DropLast(str)) ELSE str

\* str.trim()
Trim(str) == TrimRight(TrimLeft(str))

\* "__proto__": parsedInfo is an object literal, so parsedInfo["__proto__"] =
\* value runs the setter of Object.prototype, which ignores a string.
ProtoKey == <<95, 95, 112, 114, 111, 116, 111, 95, 95>>

RECURSIVE DeviceInfoPairs(_, _)
\* The loop of parseDeviceInfo: a later pair with the same key replaces the
\* earlier one.  The object is the set of its <<key, value>> pairs.
DeviceInfoPairs(parts, parsedInfo) ==
    IF parts = <<>> THEN parsedInfo
    ELSE LET keyValue == SplitBy(Trim(Head(parts)), EqualsSign)
             key == Trim(keyValue[1])
             value == Trim(keyValue[2])
         IN  IF Len(keyValue) = 2 /\ key # <<>> /\ value # <<>> /\ key # ProtoKey
             THEN DeviceInfoPairs(Tail(parts),
                      {kv \in parsedInfo : kv[1] # key} \cup {<<key, value>>})
             ELSE DeviceInfoPairs(Tail(parts), parsedInfo)

\* A variant of the model, for the sensitivity of the properties: the text
\* taken up to the end of the view, checksum byte included.
parseDeviceInfo_KeepsChecksum(dataView) ==
    IF Len(dataView) < 5 THEN {}
    ELSE LET responseStr == SubSeq(dataView, 5, Len(dataView))
         IN  DeviceInfoPairs(SplitBy(responseStr, Comma), {})

\* new Uint8Array(buffer, byteOffset + 4, byteLength - 5) throws inside the
\* try block when the view is shorter than 5 bytes: the catch returns {}.
parseDeviceInfo(dataView) ==
    IF Len(dataView) < 5 THEN {}
    ELSE LET responseStr == SubSeq(dataView, 5, Len(dataView) - 1)
         IN  DeviceInfoPairs(SplitBy(responseStr, Comma), {})

\* dataView.getUint16(off, true)
U16LE(buf, off) == At(buf, off) + (256 * At(buf, off + 1))
\* dataView.getInt16(off, true)
I16LE(buf, off) ==
    IF U16LE(buf, off) >= 32768 THEN U16LE(buf, off) - 65536 ELSE U16LE(buf, off)
\* dataView.getUint32(off, true): the value low + 65536 * high, held as its
\* two 16-bit halves <<low, high>> (it does not fit the 32-bit signed
\* integers of the model checker)
U32LE(buf, off) == <<U16LE(buf, off), U16LE(buf, off + 2)>>
\* !!(dataView.getUint8(off) & mask)
Flag(buf, off, mask) == BitAnd(At(buf, off), mask) # 0

\* The optional fields of RuntimeInfo are nullable: <<>> when absent.
parseRuntimeInfo(dataView) ==
    IF Len(dataView) < 39 THEN Null
    ELSE LET n == Len(dataView)
         IN Some([
            head |-> At(dataView, 0),
            dataLength |-> At(dataView, 1),
            cntl |-> At(dataView, 2),
            command |-> At(dataView, 3),
            in1Active |-> [active |-> Flag(dataView, 4, 1),
                           transparent |-> Flag(dataView, 4, 2)],
            in2Active |-> [active |-> Flag(dataView, 5, 1),
                           transparent |-> Flag(dataView, 5, 2)],
            in1Power |-> U16LE(dataView, 6),
            in2Power |-> U16LE(dataView, 8),
            soc |-> U16LE(dataView, 10),
            devVersion |-> At(dataView, 12),
            chargeMode |-> [loadFirst |-> Flag(dataView, 13, 1)],
            dischargeSetting |-> [out1Enable |-> Flag(dataView, 14, 1),
                                  out2Enable |-> Flag(dataView, 14, 2)],
            wifiMqttState |-> [wifiConnected |-> Flag(dataView, 15, 1),
                               mqttConnected |-> Flag(dataView, 15, 2)],
            out1Active |-> At(dataView, 16),
            out2Active |-> At(dataView, 17),
            dod |-> At(dataView, 18),
            dischargeThreshold |-> U16LE(dataView, 19),
            deviceScene |-> At(dataView, 21),
            remainingCapacity |-> U16LE(dataView, 22),
            out1Power |-> U16LE(dataView, 24),
            out2Power |-> U16LE(dataView, 26),
            extern1Connected |-> At(dataView, 28),
            extern2Connected |-> At(dataView, 29),
            deviceRegion |-> At(dataView, 30),
            time |-> [hour |-> At(dataView, 31), minute |-> At(dataView, 32)],
            temperatureLow |-> I16LE(dataView, 33),
            temperatureHigh |-> I16LE(dataView, 35),
            reserved1 |-> U16LE(dataView, 37),
            deviceSubVersion |->
                IF n > 39 THEN Some(At(dataView, 39)) ELSE Null,
            dailyTotalBatteryCharge |->
                IF n > 39 /\ n >= 40 + 4 THEN Some(U32LE(dataView, 40)) ELSE Null,
            dailyTotalBatteryDischarge |->
                IF n > 39 /\ n >= 44 + 4 THEN Some(U32LE(dataView, 44)) ELSE Null,
            dailyTotalLoadCharge |->
                IF n > 39 /\ n >= 48 + 4 THEN Some(U32LE(dataView, 48)) ELSE Null,
            dailyTotalLoadDischarge |->
                IF n > 39 /\ n >= 52 + 4 THEN Some(U32LE(dataView, 52)) ELSE Null])

\* What a call of parseMessage produces: a ParsedMessage, or an exception.
Threw(what) ==
    [threw |-> TRUE, type |-> UNKNOWN_TYPE, rawData |-> <<>>, data |-> Null,
     error |-> what]
Unknown(rawData, error) ==
    [threw |-> FALSE, type |-> UNKNOWN_TYPE, rawData |-> rawData, data |-> Null,
     error |-> error]
Typed(type, rawData, data) ==
    [threw |-> FALSE, type |-> type, rawData |-> rawData, data |-> data,
     error |-> ""]

\* A variant of the model, for the sensitivity of the properties: the
\* validation of the checksum that the parser leaves out.
parseMessage_VerifiesChecksum(message) ==
    LET rawData == message
    IN  IF isValidCellInfoMessage(message)
        THEN Typed(CELL_INFO, rawData, parseCellInfo(message))
        ELSE IF ~InRange(message, 0) THEN Threw("RangeError")
        ELSE IF At(message, 0) # START_BYTE
        THEN Unknown(rawData, INVALID_START_BYTE)
        ELSE IF ~InRange(message, 1) \/ ~InRange(message, 2) \/ ~InRange(message, 3)
        THEN Threw("RangeError")
        ELSE IF ~InRange(message, At(message, 1) - 1) THEN Threw("RangeError")
        ELSE IF At(message, 2) # IDENTIFIER_BYTE
        THEN Unknown(rawData, UNKNOWN_COMMAND)
        ELSE IF At(message, At(message, 1) - 1)
                # calculateChecksum(SubSeq(message, 1, At(message, 1) - 1))
        THEN Unknown(rawData, CHECKSUM_MISMATCH)
        ELSE IF At(message, 3) = RUNTIME_INFO
        THEN Typed(RUNTIME_INFO, rawData, parseRuntimeInfo(message))
        ELSE IF At(message, 3) = DEVICE_INFO
        THEN Typed(DEVICE_INFO, rawData, Some(parseDeviceInfo(message)))
        ELSE Unknown(rawData, UNKNOWN_COMMAND)

\* A variant of the model, for the sensitivity of the properties: a decoding
\* of runtime info that reads the bytes past the end of the message as zero.
parseMessage_ReadsPastTheEndAsZero(message) ==
    LET rawData == message
    IN  IF isValidCellInfoMessage(message)
        THEN Typed(CELL_INFO, rawData, parseCellInfo(message))
        ELSE IF ~InRange(message, 0) THEN Threw("RangeError")
        ELSE IF At(message, 0) # START_BYTE
        THEN Unknown(rawData, INVALID_START_BYTE)
        ELSE IF ~InRange(message, 1) \/ ~InRange(message, 2) \/ ~InRange(message, 3)
        THEN Threw("RangeError")
        ELSE IF ~InRange(message, At(message, 1) - 1) THEN Threw("RangeError")
        ELSE IF At(message, 2) # IDENTIFIER_BYTE
        THEN Unknown(rawData, UNKNOWN_COMMAND)
        ELSE IF At(message, 3) = RUNTIME_INFO
        THEN Typed(RUNTIME_INFO, rawData,
                   parseRuntimeInfo(IF Len(message) >= 39 THEN message
                                    ELSE message \o [i \in 1..(39 - Len(message)) |-> 0]))
        ELSE IF At(message, 3) = DEVICE_INFO
        THEN Typed(DEVICE_INFO, rawData, Some(parseDeviceInfo(message)))
        ELSE Unknown(rawData, UNKNOWN_COMMAND)

\* A variant of the model, for the sensitivity of the properties: a dispatch
\* that hands parseRuntimeInfo the message without its last byte.
parseMessage_RuntimeInfoWithoutLastByte(message) ==
    LET rawData == message
    IN  IF isValidCellInfoMessage(message)
        THEN Typed(CELL_INFO, rawData, parseCellInfo(message))
        ELSE IF ~InRange(message, 0) THEN Threw("RangeError")
        ELSE IF At(message, 0) # START_BYTE
        THEN Unknown(rawData, INVALID_START_BYTE)
        ELSE IF ~InRange(message, 1) \/ ~InRange(message, 2) \/ ~InRange(message, 3)
        THEN Threw("RangeError")
        ELSE IF ~InRange(message, At(message, 1) - 1) THEN Threw("RangeError")
        ELSE IF At(message, 2) # IDENTIFIER_BYTE
        THEN Unknown(rawData, UNKNOWN_COMMAND)
        ELSE IF At(message, 3) = RUNTIME_INFO
        THEN Typed(RUNTIME_INFO, rawData,
                   parseRuntimeInfo(SubSeq(message, 1, Len(message) - 1)))
        ELSE IF At(message, 3) = DEVICE_INFO
        THEN Typed(DEVICE_INFO, rawData, Some(parseDeviceInfo(message)))
        ELSE Unknown(rawData, UNKNOWN_COMMAND)

\* A variant of the model, for the sensitivity of the properties: a dispatch
\* that knows the opcode of cell info as well.
parseMessage_DispatchesCellInfo(message) ==
    LET rawData == message
    IN  IF isValidCellInfoMessage(message)
        THEN Typed(CELL_INFO, rawData, parseCellInfo(message))
        ELSE IF ~InRange(message, 0) THEN Threw("RangeError")
        ELSE IF At(message, 0) # START_BYTE
        THEN Unknown(rawData, INVALID_START_BYTE)
        ELSE IF ~InRange(message, 1) \/ ~InRange(message, 2) \/ ~InRange(message, 3)
        THEN Threw("RangeError")
        ELSE IF ~InRange(message, At(message, 1) - 1) THEN Threw("RangeError")
        ELSE IF At(message, 2) # IDENTIFIER_BYTE
        THEN Unknown(rawData, UNKNOWN_COMMAND)
        ELSE IF At(message, 3) = RUNTIME_INFO
        THEN Typed(RUNTIME_INFO, rawData, parseRuntimeInfo(message))
        ELSE IF At(message, 3) = DEVICE_INFO
        THEN Typed(DEVICE_INFO, rawData, Some(parseDeviceInfo(message)))
        ELSE IF At(message, 3) = CELL_INFO
        THEN Typed(CELL_INFO, rawData, parseCellInfo(message))
        ELSE Unknown(rawData, UNKNOWN_COMMAND)

\* A variant of the model, for the sensitivity of the properties: no test
\* of the first byte.
parseMessage_NoStartByteCheck(message) ==
    LET rawData == message
    IN  IF isValidCellInfoMessage(message)
        THEN Typed(CELL_INFO, rawData, parseCellInfo(message))
        ELSE IF ~InRange(message, 0) \/ ~InRange(message, 1)
                \/ ~InRange(message, 2) \/ ~InRange(message, 3)
        THEN Threw("RangeError")
        ELSE IF ~InRange(message, At(message, 1) - 1) THEN Threw("RangeError")
        ELSE IF At(message, 2) # IDENTIFIER_BYTE
        THEN Unknown(rawData, UNKNOWN_COMMAND)
        ELSE IF At(message, 3) = RUNTIME_INFO
        THEN Typed(RUNTIME_INFO, rawData, parseRuntimeInfo(message))
        ELSE IF At(message, 3) = DEVICE_INFO
        THEN Typed(DEVICE_INFO, rawData, Some(parseDeviceInfo(message)))
        ELSE Unknown(rawData, UNKNOWN_COMMAND)

parseMessage(message) ==
    LET rawData == message
    IN  IF isValidCellInfoMessage(message)
        THEN Typed(CELL_INFO, rawData, parseCellInfo(message))
        ELSE IF ~InRange(message, 0) THEN Threw("RangeError")
        ELSE IF At(message, 0) # START_BYTE
        THEN Unknown(rawData, INVALID_START_BYTE)
        ELSE IF ~InRange(message, 1) \/ ~InRange(message, 2) \/ ~InRange(message, 3)
        THEN Threw("RangeError")
        ELSE LET length == At(message, 1)
                 identifier == At(message, 2)
                 command == At(message, 3)
             IN  IF ~InRange(message, length - 1) THEN Threw("RangeError")
                 ELSE IF identifier # IDENTIFIER_BYTE
                 THEN Unknown(rawData, UNKNOWN_COMMAND)
                 ELSE IF command < 0 \/ command > 255
                 THEN Unknown(rawData, UNKNOWN_COMMAND)
                 ELSE IF command = RUNTIME_INFO
                 THEN Typed(RUNTIME_INFO, rawData, parseRuntimeInfo(message))
                 ELSE IF command = DEVICE_INFO
                 THEN Typed(DEVICE_INFO, rawData, Some(parseDeviceInfo(message)))
                 ELSE Unknown(rawData, UNKNOWN_COMMAND)

(***************************************************************************)
(* BLEDeviceManager: the device session                                    *)
(*                                                                         *)
(* JavaScript runs one task at a time.  An action of the model is one task *)
(* with the microtasks it leaves behind: a call by the caller up to its    *)
(* first pending await, the completion of one transport operation with the *)
(* continuation that follows it up to the next pending await, the firing   *)
(* of one timer, or the dispatch of one transport event.                   *)
(***************************************************************************)
\* The state of the codec runs
VARIABLES
    cmd,        \* the opcode given to createCommandMessage
    payload,    \* the payload given to createCommandMessage
    frame,      \* the frame createCommandMessage returned
    buf,        \* the buffer given to isValidMessage / parseMessage
    valid,      \* what isValidMessage returned
    parsed,     \* what parseMessage produced
    config,     \* the MQTTConfig given to createMqttConfigPayload
    built,      \* what createMqttConfigPayload produced
    cpc         \* the step of the codec scenario

codecVars == <<cmd, payload, frame, buf, valid, parsed, config, built, cpc>>

\* The state of the session
VARIABLES
    device,                 \* this.device
    commandCharacteristic,  \* this.commandCharacteristic
    statusCharacteristic,   \* this.statusCharacteristic
    connected,              \* this.connected
    connecting,             \* this.connecting
    explicitDisconnect,     \* this.explicitDisconnect
    autoReconnect,          \* this.options.autoReconnect
    gattConnected,          \* device.gatt.connected: the link is up
    lossPending,            \* a gattserverdisconnected event awaits dispatch
    devListener,            \* onDisconnected is a listener of the device
    notifRegs,              \* the _handleStatusNotification listeners on the
                            \* status characteristic of the current link
    connectCalls,           \* the connect() calls in progress
    reconnects,             \* the reconnect timers and attempts
    requests,               \* the getDeviceInfo/getRuntimeInfo/getCellInfo calls
    emitted,                \* the events the last step emitted, in order
    op,                     \* the operation the last step ran
    returned,               \* how the connect() call the last step completed settled
    errors,                 \* the arguments of the error events the last step emitted
    lastLifecycle,          \* history: the last connect/reconnect/disconnect event
    intentional,            \* history: disconnect() was called in this Connected period
    failedReconnect,        \* history: a reconnect attempt failed since the last connect() call
    eventListeners,         \* this.eventListeners: the callbacks of the caller, in
                            \* the order of their registration
    delivered,              \* the callbacks the last step called, in order
    propagated              \* an exception of a callback left _triggerEvent

sessVars ==
    <<device, commandCharacteristic, statusCharacteristic, connected, connecting,
      explicitDisconnect, autoReconnect, gattConnected, lossPending, devListener,
      notifRegs, connectCalls, reconnects, requests, emitted, op, returned, errors,
      lastLifecycle, intentional, failedReconnect, eventListeners, delivered,
      propagated>>


\* Bounds of the session instances: the calls and timers that may be in
\* progress at one time.
MaxConnectCalls == 1
MaxReconnects == 1
MaxRequests == 1
\* Command calls in one run of the specification of overlapping calls
MaxPending == 2
\* Callbacks of the caller registered at one time
MaxListeners == 3

NoDevice == "null"
TheDevice == "device"
NullCharacteristic == "null"
CommandCharacteristic == "ff01"
StatusCharacteristic == "ff02"
\* options.reconnectDelay, by default
reconnectDelay == 2000
\* the timeout option of the get* calls, by default
defaultTimeout == 5000

IdleReconnect == [pc |-> "idle", delay |-> 0, afterDisconnectCall |-> FALSE]
IdleRequest ==
    [kind |-> "none", listener |-> FALSE, timer |-> FALSE, timeout |-> 0,
     promise |-> "none", reason |-> "", value |-> Null, send |-> "none",
     sendTwice |-> FALSE, frame |-> <<>>, writes |-> <<>>, lostLink |-> FALSE]

\* The state the constructor leaves, in a run of at most `calls` command calls.
ConstructedFor(calls) ==
    /\ device = NoDevice
    /\ commandCharacteristic = NullCharacteristic
    /\ statusCharacteristic = NullCharacteristic
    /\ connected = FALSE
    /\ connecting = FALSE
    /\ explicitDisconnect = TRUE
    /\ gattConnected = FALSE
    /\ lossPending = FALSE
    /\ devListener = FALSE
    /\ notifRegs = 0
    /\ connectCalls = [i \in 1..MaxConnectCalls |-> "idle"]
    /\ reconnects = [i \in 1..MaxReconnects |-> IdleReconnect]
    /\ requests = [i \in 1..calls |-> IdleRequest]
    /\ emitted = <<>>
    /\ op = "new"
    /\ returned = <<>>
    /\ errors = <<>>
    /\ lastLifecycle = "none"
    /\ intentional = FALSE
    /\ failedReconnect = FALSE
    /\ eventListeners = <<>>
    /\ delivered = <<>>
    /\ propagated = FALSE

Constructed == ConstructedFor(MaxRequests)

Range(seq) == {seq[i] : i \in 1..Len(seq)}
IdleConnectSlots == {i \in 1..MaxConnectCalls : connectCalls[i] = "idle"}
IdleReconnectSlots == {i \in 1..MaxReconnects : reconnects[i].pc = "idle"}
Lowest(S) == CHOOSE i \in S : \A j \in S : i <= j

\* The callbacks a caller registers with on(event, callback): one that
\* returns, one that throws, and one that removes the callback registered
\* after it with off(event, callback) and then throws.
Behaviours == {"returns", "throws", "removesNextAndThrows"}
Throws(callback) == callback.behaviour \in {"throws", "removesNextAndThrows"}

\* A variant of the model, for the sensitivity of the properties: a call of
\* the callback without the try block.
TryCallback_NoCatch(callback) == Throws(callback)

\* try { callback(...args) } catch (error) { this.log(...) }: whether an
\* exception leaves the statement
TryCallback(callback) == FALSE

\* this.eventListeners[event]
ListenersOf(registered, event) ==
    SelectSeq(registered, LAMBDA callback : callback.event = event)

\* off(event, callback), called by the callback before it: the array of the
\* event is replaced by a filtered copy
AfterCallback(registered, iterated, index) ==
    IF iterated[index].behaviour = "removesNextAndThrows" /\ index < Len(iterated)
    THEN SelectSeq(registered, LAMBDA callback : callback.id # iterated[index + 1].id)
    ELSE registered

\* The loop of _triggerEvent over the array it started with: the callbacks
\* called, the registrations left, and whether an exception left the loop
RECURSIVE CallEach(_, _, _)
CallEach(iterated, index, out) ==
    IF index > Len(iterated) \/ out.propagated THEN out
    ELSE CallEach(iterated, index + 1,
                  [listeners |-> AfterCallback(out.listeners, iterated, index),
                   called |-> Append(out.called, <<iterated[index].event, iterated[index].id>>),
                   propagated |-> TryCallback(iterated[index])])

\* _triggerEvent(event, ...args)
triggerEvent(event, out) == CallEach(ListenersOf(out.listeners, event), 1, out)

\* The _triggerEvent calls of one step, in order
RECURSIVE TriggerAll(_, _)
TriggerAll(events, out) ==
    IF events = <<>> \/ out.propagated THEN out
    ELSE TriggerAll(Tail(events), triggerEvent(Head(events), out))

\* What every step records: the operation, the settlement of the connect()
\* call it completed (ret), the errors it handed to the error event (errs),
\* and the history variables.
ObserveWith(name, ret, errs) ==
    /\ op' = name
    /\ returned' = ret
    /\ errors' = errs
    /\ UNCHANGED codecVars
    /\ lastLifecycle' =
         LET life == SelectSeq(emitted', LAMBDA e : e \in {"connect", "reconnect", "disconnect"})
         IN  IF life = <<>> THEN lastLifecycle ELSE life[Len(life)]
    /\ failedReconnect' =
         IF name = "reconnectFailed" THEN TRUE
         ELSE IF name = "connect" THEN FALSE
         ELSE failedReconnect
    /\ LET out == TriggerAll(emitted', [listeners |-> eventListeners, called |-> <<>>,
                                        propagated |-> FALSE])
       IN  /\ eventListeners' = out.listeners
           /\ delivered' = out.called
           /\ propagated' = out.propagated

\* A step that completes no connect() call and emits no error event
Observe(name) == ObserveWith(name, <<>>, <<>>)

\* The history of disconnect(): set by a call on a Connected session, reset
\* when the session becomes Connected again.
IntentionalAfter(name, events) ==
    IF name = "disconnect" /\ connected THEN TRUE
    ELSE IF "connect" \in Range(events) \/ "reconnect" \in Range(events) THEN FALSE
    ELSE intentional

\* A variant of the model, for the sensitivity of the properties: the handler
\* without its guard.
onDisconnected_NoConnectedGuard(name) ==
    /\ connected' = FALSE
    /\ commandCharacteristic' = NullCharacteristic
    /\ statusCharacteristic' = NullCharacteristic
    /\ emitted' = <<"disconnect">>
    /\ IF ~explicitDisconnect /\ autoReconnect /\ device # NoDevice
       THEN /\ IdleReconnectSlots # {}
            /\ reconnects' =
                 [reconnects EXCEPT ![Lowest(IdleReconnectSlots)] =
                     [pc |-> "timer", delay |-> reconnectDelay,
                      afterDisconnectCall |-> IntentionalAfter(name, <<"disconnect">>)]]
            /\ UNCHANGED device
       ELSE /\ device' = NoDevice
            /\ UNCHANGED reconnects

\* this.onDisconnected(), called by the operation `name`
onDisconnected(name) ==
    IF ~connected
    THEN /\ emitted' = <<>>
         /\ UNCHANGED <<connected, commandCharacteristic, statusCharacteristic,
                        device, reconnects>>
    ELSE /\ connected' = FALSE
         /\ commandCharacteristic' = NullCharacteristic
         /\ statusCharacteristic' = NullCharacteristic
         /\ emitted' = <<"disconnect">>
         /\ IF ~explicitDisconnect /\ autoReconnect /\ device # NoDevice
            THEN /\ IdleReconnectSlots # {}
                 /\ reconnects' =
                      [reconnects EXCEPT ![Lowest(IdleReconnectSlots)] =
                          [pc |-> "timer", delay |-> reconnectDelay,
                           afterDisconnectCall |-> IntentionalAfter(name, <<"disconnect">>)]]
                 /\ UNCHANGED device
            ELSE /\ device' = NoDevice
                 /\ UNCHANGED reconnects

\* A variant of the model, for the sensitivity of the properties: connect()
\* that looks at connected only.
ConnectCall_IgnoresConnecting(withDevice) ==
    /\ IF connected
       THEN UNCHANGED <<connecting, explicitDisconnect, device, devListener, connectCalls>>
       ELSE /\ IdleConnectSlots # {}
            /\ connecting' = TRUE
            /\ explicitDisconnect' = FALSE
            /\ IF withDevice
               THEN /\ device' = TheDevice
                    /\ devListener' = TRUE
                    /\ connectCalls' = [connectCalls EXCEPT ![Lowest(IdleConnectSlots)] = "gatt"]
               ELSE /\ connectCalls' = [connectCalls EXCEPT ![Lowest(IdleConnectSlots)] = "scan"]
                    /\ UNCHANGED <<device, devListener>>
    /\ emitted' = <<>>
    /\ intentional' = intentional
    /\ UNCHANGED <<commandCharacteristic, statusCharacteristic, connected, autoReconnect,
                   gattConnected, lossPending, notifRegs, reconnects, requests>>
    /\ ObserveWith("connect",
                   IF connecting \/ connected THEN <<"resolved", device>> ELSE <<>>,
                   <<>>)

\* connect(device?, options)
ConnectCall(withDevice) ==
    /\ IF connecting \/ connected
       THEN UNCHANGED <<connecting, explicitDisconnect, device, devListener, connectCalls>>
       ELSE /\ IdleConnectSlots # {}
            /\ connecting' = TRUE
            /\ explicitDisconnect' = FALSE
            /\ IF withDevice
               THEN /\ device' = TheDevice
                    /\ devListener' = TRUE
                    /\ connectCalls' = [connectCalls EXCEPT ![Lowest(IdleConnectSlots)] = "gatt"]
               ELSE /\ connectCalls' = [connectCalls EXCEPT ![Lowest(IdleConnectSlots)] = "scan"]
                    /\ UNCHANGED <<device, devListener>>
    /\ emitted' = <<>>
    /\ intentional' = intentional
    /\ UNCHANGED <<commandCharacteristic, statusCharacteristic, connected, autoReconnect,
                   gattConnected, lossPending, notifRegs, reconnects, requests>>
    /\ ObserveWith("connect",
                   IF connecting \/ connected THEN <<"resolved", device>> ELSE <<>>,
                   <<>>)

\* The transport operation a connect() call or a reconnect attempt awaits at
\* pc can complete successfully: the link must be up for everything but the
\* discovery and the opening of the link, and a link is not reopened before
\* the loss of the previous one has been reported.
CanSucceed(pc) ==
    CASE pc = "scan" -> TRUE
      [] pc = "gatt" -> ~lossPending
      [] OTHER -> gattConnected

\* A variant of the model, for the sensitivity of the properties: a catch
\* block that leaves connecting set.
ConnectFailed_KeepsConnecting(slot) ==
    /\ connecting' = connecting
    /\ connected' = FALSE
    /\ emitted' = <<"error">>
    /\ connectCalls' = [connectCalls EXCEPT ![slot] = "idle"]
    /\ intentional' = intentional
    /\ ObserveWith("connectFailed", <<"rejected", connectCalls[slot]>>,
                   <<connectCalls[slot]>>)

\* The catch block of connect()
ConnectFailed(slot) ==
    /\ connecting' = FALSE
    /\ connected' = FALSE
    /\ emitted' = <<"error">>
    /\ connectCalls' = [connectCalls EXCEPT ![slot] = "idle"]
    /\ intentional' = intentional
    /\ ObserveWith("connectFailed", <<"rejected", connectCalls[slot]>>,
                   <<connectCalls[slot]>>)

\* One await of connect() completes (ok) or rejects, and the call runs on to
\* its next await, to its return or through its catch block.
ConnectStep(slot, ok) ==
    /\ connectCalls[slot] # "idle"
    /\ ok => CanSucceed(connectCalls[slot])
    /\ UNCHANGED <<explicitDisconnect, autoReconnect, lossPending, reconnects, requests>>
    /\ IF ~ok
       THEN /\ ConnectFailed(slot)
            /\ UNCHANGED <<device, commandCharacteristic, statusCharacteristic,
                           gattConnected, devListener, notifRegs>>
       ELSE CASE connectCalls[slot] = "scan" ->
                   /\ device' = TheDevice
                   /\ devListener' = TRUE
                   /\ connectCalls' = [connectCalls EXCEPT ![slot] = "gatt"]
                   /\ emitted' = <<>>
                   /\ intentional' = intentional
                   /\ UNCHANGED <<commandCharacteristic, statusCharacteristic, connected,
                                  connecting, gattConnected, notifRegs>>
                   /\ Observe("connectStep")
              [] connectCalls[slot] = "gatt" ->
                   /\ gattConnected' = TRUE
                   /\ connectCalls' = [connectCalls EXCEPT ![slot] = "service"]
                   /\ emitted' = <<>>
                   /\ intentional' = intentional
                   /\ UNCHANGED <<device, commandCharacteristic, statusCharacteristic,
                                  connected, connecting, devListener, notifRegs>>
                   /\ Observe("connectStep")
              [] connectCalls[slot] = "service" ->
                   /\ connectCalls' = [connectCalls EXCEPT ![slot] = "cmdChar"]
                   /\ emitted' = <<>>
                   /\ intentional' = intentional
                   /\ UNCHANGED <<device, commandCharacteristic, statusCharacteristic,
                                  connected, connecting, gattConnected, devListener, notifRegs>>
                   /\ Observe("connectStep")
              [] connectCalls[slot] = "cmdChar" ->
                   /\ commandCharacteristic' = CommandCharacteristic
                   /\ connectCalls' = [connectCalls EXCEPT ![slot] = "statusChar"]
                   /\ emitted' = <<>>
                   /\ intentional' = intentional
                   /\ UNCHANGED <<device, statusCharacteristic, connected, connecting,
                                  gattConnected, devListener, notifRegs>>
                   /\ Observe("connectStep")
              [] connectCalls[slot] = "statusChar" ->
                   /\ statusCharacteristic' = StatusCharacteristic
                   /\ connectCalls' = [connectCalls EXCEPT ![slot] = "notify"]
                   /\ emitted' = <<>>
                   /\ intentional' = intentional
                   /\ UNCHANGED <<device, commandCharacteristic, connected, connecting,
                                  gattConnected, devListener, notifRegs>>
                   /\ Observe("connectStep")
              [] connectCalls[slot] = "notify" ->
                   IF statusCharacteristic = NullCharacteristic
                   THEN \* this.statusCharacteristic.addEventListener: a TypeError
                        /\ ConnectFailed(slot)
                        /\ UNCHANGED <<device, commandCharacteristic, statusCharacteristic,
                                       gattConnected, devListener, notifRegs>>
                   ELSE /\ notifRegs' = notifRegs + 1
                        /\ connected' = TRUE
                        /\ connecting' = FALSE
                        /\ emitted' = <<"connect">>
                        /\ connectCalls' = [connectCalls EXCEPT ![slot] = "idle"]
                        /\ intentional' = FALSE
                        /\ UNCHANGED <<device, commandCharacteristic, statusCharacteristic,
                                       gattConnected, devListener>>
                        /\ ObserveWith("connected", <<"resolved", device>>, <<>>)

\* The get* calls: the event each listens for and the opcode each sends.
InfoKinds == {"deviceInfo", "runtimeInfo", "cellInfo"}

\* History, not a field of the program: lostLink records on a pending get*
\* call that the link was lost, or disconnect() was called, while it was
\* pending. Neither gatt.disconnect(), nor the loss of the link, nor
\* onDisconnected touches a call.
NotedLoss ==
    [i \in DOMAIN requests |->
        IF requests[i].promise = "pending" /\ requests[i].kind \in InfoKinds
        THEN [requests[i] EXCEPT !.lostLink = TRUE]
        ELSE requests[i]]

\* disconnect()
Disconnect ==
    /\ IF device # NoDevice /\ gattConnected
       THEN /\ explicitDisconnect' = TRUE
            \* device.gatt.disconnect(): the link closes and the closure is reported
            /\ gattConnected' = FALSE
            /\ lossPending' = TRUE
            /\ notifRegs' = 0
            /\ emitted' = <<>>
            /\ UNCHANGED <<connected, commandCharacteristic, statusCharacteristic, device,
                           reconnects>>
       ELSE /\ onDisconnected("disconnect")
            /\ UNCHANGED <<explicitDisconnect, gattConnected, lossPending, notifRegs>>
    /\ intentional' = IntentionalAfter("disconnect", emitted')
    /\ requests' = NotedLoss
    /\ UNCHANGED <<connecting, autoReconnect, devListener, connectCalls>>
    /\ Observe("disconnect")

\* A variant of the model, for the sensitivity of the properties: a link loss
\* that rejects the pending calls.
LinkDrop_RejectsPending ==
    /\ gattConnected
    /\ ~lossPending
    /\ gattConnected' = FALSE
    /\ lossPending' = TRUE
    /\ notifRegs' = 0
    /\ emitted' = <<>>
    /\ intentional' = intentional
    /\ requests' = [i \in DOMAIN requests |->
                      IF requests[i].promise = "pending"
                      THEN [NotedLoss[i] EXCEPT !.listener = FALSE, !.timer = FALSE,
                                                !.promise = "rejected",
                                                !.reason = "Disconnected"]
                      ELSE requests[i]]
    /\ UNCHANGED <<device, commandCharacteristic, statusCharacteristic, connected,
                   connecting, explicitDisconnect, autoReconnect, devListener,
                   connectCalls, reconnects>>
    /\ Observe("linkDrop")

\* The transport loses the link; the loss is reported by a later task.
LinkDrop ==
    /\ gattConnected
    /\ ~lossPending
    /\ gattConnected' = FALSE
    /\ lossPending' = TRUE
    /\ notifRegs' = 0
    /\ emitted' = <<>>
    /\ intentional' = intentional
    /\ requests' = NotedLoss
    /\ UNCHANGED <<device, commandCharacteristic, statusCharacteristic, connected,
                   connecting, explicitDisconnect, autoReconnect, devListener,
                   connectCalls, reconnects>>
    /\ Observe("linkDrop")

\* The gattserverdisconnected event is dispatched to its listener.
LossReport ==
    /\ lossPending
    /\ lossPending' = FALSE
    /\ IF devListener
       THEN onDisconnected("lossReport")
       ELSE /\ emitted' = <<>>
            /\ UNCHANGED <<connected, commandCharacteristic, statusCharacteristic,
                           device, reconnects>>
    /\ intentional' = intentional
    /\ UNCHANGED <<connecting, explicitDisconnect, autoReconnect, gattConnected,
                   devListener, notifRegs, connectCalls, requests>>
    /\ Observe("lossReport")

\* setAutoReconnect(enable)
SetAutoReconnect(enable) ==
    /\ autoReconnect' = enable
    /\ autoReconnect # enable
    /\ emitted' = <<>>
    /\ intentional' = intentional
    /\ UNCHANGED <<device, commandCharacteristic, statusCharacteristic, connected,
                   connecting, explicitDisconnect, gattConnected, lossPending,
                   devListener, notifRegs, connectCalls, reconnects, requests>>
    /\ Observe("setAutoReconnect")

\* The reconnect timer fires: the callback runs up to its first await.
ReconnectTimer(slot) ==
    /\ reconnects[slot].pc = "timer"
    /\ connecting' = TRUE
    /\ reconnects' = [reconnects EXCEPT ![slot].pc = "gatt"]
    /\ emitted' = <<>>
    /\ intentional' = intentional
    /\ UNCHANGED <<device, commandCharacteristic, statusCharacteristic, connected,
                   explicitDisconnect, autoReconnect, gattConnected, lossPending,
                   devListener, notifRegs, connectCalls, requests>>
    /\ Observe("timer")

\* The catch block of the reconnect attempt
ReconnectFailed(slot) ==
    /\ connecting' = FALSE
    /\ device' = NoDevice
    /\ emitted' = <<"error">>
    /\ reconnects' = [reconnects EXCEPT ![slot] = IdleReconnect]
    /\ intentional' = intentional
    /\ ObserveWith("reconnectFailed", <<>>, <<reconnects[slot].pc>>)

\* One await of the reconnect attempt completes (ok) or rejects, and the
\* attempt runs on to its next await, to its end or through its catch block.
ReconnectStep(slot, ok) ==
    /\ reconnects[slot].pc \notin {"idle", "timer"}
    /\ ok => CanSucceed(reconnects[slot].pc)
    /\ UNCHANGED <<explicitDisconnect, autoReconnect, lossPending, devListener,
                   connectCalls, requests>>
    /\ IF ~ok
       THEN /\ ReconnectFailed(slot)
            /\ UNCHANGED <<commandCharacteristic, statusCharacteristic, connected,
                           gattConnected, notifRegs>>
       ELSE CASE reconnects[slot].pc = "gatt" ->
                   /\ gattConnected' = TRUE
                   /\ reconnects' = [reconnects EXCEPT ![slot].pc = "service"]
                   /\ emitted' = <<>>
                   /\ intentional' = intentional
                   /\ UNCHANGED <<device, commandCharacteristic, statusCharacteristic,
                                  connected, connecting, notifRegs>>
                   /\ Observe("reconnectStep")
              [] reconnects[slot].pc = "service" ->
                   /\ reconnects' = [reconnects EXCEPT ![slot].pc = "cmdChar"]
                   /\ emitted' = <<>>
                   /\ intentional' = intentional
                   /\ UNCHANGED <<device, commandCharacteristic, statusCharacteristic,
                                  connected, connecting, gattConnected, notifRegs>>
                   /\ Observe("reconnectStep")
              [] reconnects[slot].pc = "cmdChar" ->
                   /\ commandCharacteristic' = CommandCharacteristic
                   /\ reconnects' = [reconnects EXCEPT ![slot].pc = "statusChar"]
                   /\ emitted' = <<>>
                   /\ intentional' = intentional
                   /\ UNCHANGED <<device, statusCharacteristic, connected, connecting,
                                  gattConnected, notifRegs>>
                   /\ Observe("reconnectStep")
              [] reconnects[slot].pc = "statusChar" ->
                   /\ statusCharacteristic' = StatusCharacteristic
                   /\ reconnects' = [reconnects EXCEPT ![slot].pc = "notify"]
                   /\ emitted' = <<>>
                   /\ intentional' = intentional
                   /\ UNCHANGED <<device, commandCharacteristic, connected, connecting,
                                  gattConnected, notifRegs>>
                   /\ Observe("reconnectStep")
              [] reconnects[slot].pc = "notify" ->
                   IF statusCharacteristic = NullCharacteristic
                   THEN \* this.statusCharacteristic.addEventListener: a TypeError
                        /\ ReconnectFailed(slot)
                        /\ UNCHANGED <<commandCharacteristic, statusCharacteristic,
                                       connected, gattConnected, notifRegs>>
                   ELSE /\ notifRegs' = notifRegs + 1
                        /\ device' = TheDevice
                        /\ connected' = TRUE
                        /\ connecting' = FALSE
                        /\ emitted' = <<"reconnect">>
                        /\ reconnects' = [reconnects EXCEPT ![slot] = IdleReconnect]
                        /\ intentional' = FALSE
                        /\ UNCHANGED <<commandCharacteristic, statusCharacteristic,
                                       gattConnected>>
                        /\ Observe("reconnected")


\* The calls that send a command and listen for nothing
ConfigKinds == {"setWifi", "setMqtt", "resetMqtt"}
CommandOf(kind) ==
    CASE kind = "deviceInfo" -> DEVICE_INFO
      [] kind = "runtimeInfo" -> RUNTIME_INFO
      [] kind = "cellInfo" -> CELL_INFO
      [] kind = "setWifi" -> SET_WIFI
      [] kind = "setMqtt" -> SET_MQTT
      [] OTHER -> RESET_MQTT

\* TextEncoder.encode: the UTF-8 bytes of a string, given as its code points
\* (below 0x800)
RECURSIVE stringToBytes(_)
stringToBytes(str) ==
    IF str = <<>> THEN <<>>
    ELSE (IF Head(str) < 128 THEN <<Head(str)>>
          ELSE <<192 + (Head(str) \div 64), 128 + (Head(str) % 64)>>)
         \o stringToBytes(Tail(str))

\* The text "<.,.>"
Separator == <<60, 46, Comma, 46, 62>>

RECURSIVE bytesToString(_)
\* TextDecoder("utf-8").decode, on the bytes TextEncoder produced: the code
\* points of the text
bytesToString(bytes) ==
    IF bytes = <<>> THEN <<>>
    ELSE IF Head(bytes) < 128 THEN <<Head(bytes)>> \o bytesToString(Tail(bytes))
    ELSE <<((Head(bytes) - 192) * 64) + (bytes[2] - 128)>>
         \o bytesToString(Tail(Tail(bytes)))

\* What a function of the protocol that can throw produced
Thrown(message) == [threw |-> TRUE, bytes |-> <<>>, message |-> message]
Returned(bytes) == [threw |-> FALSE, bytes |-> bytes, message |-> ""]

\* value || "", for an optional string (Null when the field is missing)
OrEmpty(value) == IF value = Null THEN <<>> ELSE value[1]

createWifiConfigPayload(ssid, password) ==
    stringToBytes(ssid \o Separator \o password)

\* A variant of the model, for the sensitivity of the properties: no
\* separator after the password.
createMqttConfigPayload_NoTrailingSeparator(mqtt) ==
    IF mqtt.host = <<>> \/ mqtt.port = <<>>
    THEN Thrown("Host and port are required")
    ELSE Returned(stringToBytes(
             (IF mqtt.ssl THEN <<Digit0 + 1>> ELSE <<Digit0>>) \o Separator
             \o mqtt.host \o Separator
             \o mqtt.port \o Separator
             \o OrEmpty(mqtt.username) \o Separator
             \o OrEmpty(mqtt.password)))

\* createMqttConfigPayload(config): host and port are strings, username and
\* password optional strings
createMqttConfigPayload(mqtt) ==
    IF mqtt.host = <<>> \/ mqtt.port = <<>>
    THEN Thrown("Host and port are required")
    ELSE Returned(stringToBytes(
             (IF mqtt.ssl THEN <<Digit0 + 1>> ELSE <<Digit0>>) \o Separator
             \o mqtt.host \o Separator
             \o mqtt.port \o Separator
             \o OrEmpty(mqtt.username) \o Separator
             \o OrEmpty(mqtt.password) \o Separator))

\* The arguments of the set* calls of the model: the texts "a" and "b", and
\* a broker "h" at port 1883 without credentials.
WifiSsid == <<97>>
WifiPassword == <<98>>
MqttPort == <<49, 56, 56, 51>>
MqttExample ==
    [ssl |-> FALSE, host |-> <<104>>, port |-> MqttPort, username |-> Null,
     password |-> Null]
\* The bytes given to sendRawBytes
RawBytes == <<START_BYTE, 1>>

PayloadOf(kind) ==
    CASE kind = "setWifi" -> createWifiConfigPayload(WifiSsid, WifiPassword)
      [] kind = "setMqtt" -> createMqttConfigPayload(MqttExample).bytes
      [] OTHER -> <<>>

UnusedRequestSlots == {i \in DOMAIN requests : requests[i].kind = "none"}

\* reject(error), on a promise that settles once
Reject(r, why) ==
    IF r.promise = "pending" THEN [r EXCEPT !.promise = "rejected", !.reason = why] ELSE r
\* resolve(data), on a promise that settles once
Resolve(r, data) ==
    IF r.promise = "pending" THEN [r EXCEPT !.promise = "resolved", !.value = data] ELSE r

\* The callback of sendCommand(...).catch in a get* call; for the other calls,
\* the rejection of the call by the error sendCommand throws
SendFailed(r, why) ==
    Reject([r EXCEPT !.listener = FALSE, !.timer = FALSE, !.send = "failed"], why)

\* A call of the caller, before it sends
NewCall(kind, listens, twice, bytes) ==
    [kind |-> kind, listener |-> listens, timer |-> listens,
     timeout |-> IF listens THEN defaultTimeout ELSE 0,
     promise |-> "pending", reason |-> "", value |-> Null, send |-> "none",
     sendTwice |-> twice, frame |-> bytes, writes |-> <<>>, lostLink |-> FALSE]

\* A variant of the model, for the sensitivity of the properties: the check
\* of the characteristic alone.
StartSend_CharacteristicOnly(call) ==
    IF commandCharacteristic = NullCharacteristic
    THEN SendFailed(call, "Not connected to device")
    ELSE [call EXCEPT !.send = "write1", !.writes = <<call.frame>>]

\* sendCommand and sendRawBytes up to the first await: the session must be
\* connected, and the first write is handed to the transport.
StartSend(call) ==
    IF ~connected \/ commandCharacteristic = NullCharacteristic
    THEN SendFailed(call, "Not connected to device")
    ELSE [call EXCEPT !.send = "write1", !.writes = <<call.frame>>]

\* What the session leaves alone when the caller makes a call
CallFrame(name) ==
    /\ emitted' = <<>>
    /\ intentional' = intentional
    /\ UNCHANGED <<device, commandCharacteristic, statusCharacteristic, connected,
                   connecting, explicitDisconnect, autoReconnect, gattConnected,
                   lossPending, devListener, notifRegs, connectCalls, reconnects>>
    /\ Observe(name)

\* getDeviceInfo(), getRuntimeInfo(), getCellInfo(): the call up to the first
\* await of sendCommand; a session that is not connected rejects in the same
\* task.
GetInfo(kind) ==
    /\ UnusedRequestSlots # {}
    /\ requests' =
         [requests EXCEPT ![Lowest(UnusedRequestSlots)] =
            StartSend(NewCall(kind, TRUE, TRUE,
                              createCommandMessage(CommandOf(kind), <<>>)))]
    /\ CallFrame("get")

\* setWifiConfig(ssid, password), setMqttConfig(config), resetMqttConfig():
\* the call up to the first await of sendCommand; missing arguments reject
\* before anything is sent.
SetConfig(kind, complete) ==
    /\ UnusedRequestSlots # {}
    /\ kind = "resetMqtt" => complete
    /\ LET call == NewCall(kind, FALSE, TRUE,
                           createCommandMessage(CommandOf(kind), PayloadOf(kind)))
       IN  requests' =
             [requests EXCEPT ![Lowest(UnusedRequestSlots)] =
                IF complete THEN StartSend(call)
                ELSE Reject(call, IF kind = "setWifi"
                                  THEN "SSID and password are required"
                                  ELSE "Host and port are required")]
    /\ CallFrame(IF complete THEN "set" ELSE "setIncomplete")

\* sendCommand(commandType, payload, {sendTwice}), called by itself
SendCommand(twice) ==
    /\ UnusedRequestSlots # {}
    /\ requests' =
         [requests EXCEPT ![Lowest(UnusedRequestSlots)] =
            StartSend(NewCall("command", FALSE, twice,
                              createCommandMessage(RESET_MQTT, <<>>)))]
    /\ CallFrame("send")

\* sendRawBytes(bytes): one write of the bytes as they are
SendRawBytes ==
    /\ UnusedRequestSlots # {}
    /\ requests' =
         [requests EXCEPT ![Lowest(UnusedRequestSlots)] =
            StartSend(NewCall("rawBytes", FALSE, FALSE, RawBytes))]
    /\ CallFrame("raw")

\* A variant of the model, for the sensitivity of the properties: every call
\* goes on waiting once its command is sent.
SendCompleted_AlwaysWaits(r) == [r EXCEPT !.send = "sent"]

\* sendCommand returns: a call that listens for nothing resolves, a get* call
\* goes on waiting for its event.
SendCompleted(r) ==
    IF r.kind \in InfoKinds THEN [r EXCEPT !.send = "sent"]
    ELSE Resolve([r EXCEPT !.send = "sent"], Null)

\* A variant of the model, for the sensitivity of the properties: one write
\* whatever the option.
WritesLeft_AlwaysOnce(r) == 1 - Len(r.writes)

\* The writes still to make once a write has completed
WritesLeft(r) == (IF r.sendTwice THEN 2 ELSE 1) - Len(r.writes)

\* A variant of the model, for the sensitivity of the properties: a catch
\* block that replaces the error it caught.
WriteError_NotTheTransportError(ok) == "TypeError"

\* The error the catch block of sendCommand receives: the rejection of the
\* transport's write or, after a write that completed, the TypeError of the
\* call on a command characteristic that is null by now
WriteError(ok) == IF ok THEN "TypeError" ELSE "write"

\* A writeValueWithoutResponse of sendCommand completes (ok) or rejects, and
\* sendCommand runs on to its next await, to its end or through its catch block.
WriteDone(slot, ok) ==
    /\ requests[slot].send \in {"write1", "write2"}
    /\ ok => gattConnected
    /\ IF ok /\ WritesLeft(requests[slot]) = 0
       THEN /\ requests' = [requests EXCEPT ![slot] = SendCompleted(@)]
            /\ emitted' = <<>>
       ELSE IF ok /\ commandCharacteristic # NullCharacteristic
       THEN /\ requests' = [requests EXCEPT ![slot].send = "write2",
                                            ![slot].writes = Append(@, requests[slot].frame)]
            /\ emitted' = <<>>
       ELSE \* the write failed, or this.commandCharacteristic is null by now
            /\ requests' = [requests EXCEPT ![slot] = SendFailed(@, WriteError(ok))]
            /\ emitted' = <<"error">>
    /\ intentional' = intentional
    /\ UNCHANGED <<device, commandCharacteristic, statusCharacteristic, connected,
                   connecting, explicitDisconnect, autoReconnect, gattConnected,
                   lossPending, devListener, notifRegs, connectCalls, reconnects>>
    /\ ObserveWith("write", <<>>, IF emitted' = <<>> THEN <<>> ELSE <<WriteError(ok)>>)

\* Variants of the model, for the sensitivity of the properties.
Timeout_KeepsListener(slot) ==
    /\ requests[slot].timer
    /\ requests' = [requests EXCEPT ![slot] =
                      Reject([@ EXCEPT !.timer = FALSE], "Command timed out")]
    /\ emitted' = <<>>
    /\ intentional' = intentional
    /\ UNCHANGED <<device, commandCharacteristic, statusCharacteristic, connected,
                   connecting, explicitDisconnect, autoReconnect, gattConnected,
                   lossPending, devListener, notifRegs, connectCalls, reconnects>>
    /\ Observe("timeout")

Timeout_NoReject(slot) ==
    /\ requests[slot].timer
    /\ requests' = [requests EXCEPT ![slot].listener = FALSE, ![slot].timer = FALSE]
    /\ emitted' = <<>>
    /\ intentional' = intentional
    /\ UNCHANGED <<device, commandCharacteristic, statusCharacteristic, connected,
                   connecting, explicitDisconnect, autoReconnect, gattConnected,
                   lossPending, devListener, notifRegs, connectCalls, reconnects>>
    /\ Observe("timeout")

\* The timeout timer of a get* call fires.
Timeout(slot) ==
    /\ requests[slot].timer
    /\ requests' = [requests EXCEPT ![slot] =
                      Reject([@ EXCEPT !.listener = FALSE, !.timer = FALSE],
                             "Command timed out")]
    /\ emitted' = <<>>
    /\ intentional' = intentional
    /\ UNCHANGED <<device, commandCharacteristic, statusCharacteristic, connected,
                   connecting, explicitDisconnect, autoReconnect, gattConnected,
                   lossPending, devListener, notifRegs, connectCalls, reconnects>>
    /\ Observe("timeout")

\* The notifications the device sends: a device info frame, a runtime info
\* frame too short to decode, a cell info text, a frame of an unknown opcode
\* and an empty value.
DeviceInfoFrame == createCommandMessage(DEVICE_INFO, <<97, EqualsSign, 98>>)
RuntimeInfoFrame == createCommandMessage(RUNTIME_INFO, <<>>)
CellInfoText == <<49, Underscore, 50, Underscore, 51, Underscore, 52, 48, 48, 48>>
OtherFrame == createCommandMessage(SET_WIFI, <<>>)
Notifications == {DeviceInfoFrame, RuntimeInfoFrame, CellInfoText, OtherFrame, <<>>}

\* A variant of the model, for the sensitivity of the properties: a handler
\* whose default branch hands the message to the deviceInfo listeners.
EventOf_UnknownAsDeviceInfo(msg) ==
    IF msg.threw THEN "none"
    ELSE CASE msg.type = RUNTIME_INFO -> "runtimeInfo"
           [] msg.type = CELL_INFO -> "cellInfo"
           [] OTHER -> "deviceInfo"

\* The event _handleStatusNotification emits for a parsed message, if any
EventOf(msg) ==
    IF msg.threw THEN "none"
    ELSE CASE msg.type = RUNTIME_INFO -> "runtimeInfo"
           [] msg.type = DEVICE_INFO -> "deviceInfo"
           [] msg.type = CELL_INFO -> "cellInfo"
           [] OTHER -> "none"

\* The events one run of _handleStatusNotification emits
HandlerEvents(value) ==
    IF statusCharacteristic = NullCharacteristic THEN <<>>
    ELSE IF EventOf(parseMessage(value)) = "none" THEN <<"rawData">>
    ELSE <<"rawData", EventOf(parseMessage(value))>>

RECURSIVE Repeat(_, _)
Repeat(seq, n) == IF n = 0 THEN <<>> ELSE seq \o Repeat(seq, n - 1)

\* A characteristicvaluechanged event: every registered handler runs.
Notify(value) ==
    /\ gattConnected
    /\ notifRegs > 0
    /\ emitted' = Repeat(HandlerEvents(value), notifRegs)
    /\ requests' =
         [i \in DOMAIN requests |->
            IF requests[i].listener /\ requests[i].kind \in Range(emitted')
            THEN Resolve([requests[i] EXCEPT !.listener = FALSE, !.timer = FALSE],
                         parseMessage(value).data)
            ELSE requests[i]]
    /\ intentional' = intentional
    /\ UNCHANGED <<device, commandCharacteristic, statusCharacteristic, connected,
                   connecting, explicitDisconnect, autoReconnect, gattConnected,
                   lossPending, devListener, notifRegs, connectCalls, reconnects>>
    /\ Observe("notify")

(***************************************************************************)
(* The codec as a state machine: a caller builds a command frame and       *)
(* validates it; the transport hands over a received buffer, which is      *)
(* validated or parsed.                                                    *)
(***************************************************************************)
\* The payload bytes of the exhaustively enumerated short payloads.
PayloadBytes == {0, Underscore, 255}
ShortPayloads == UNION {[1..n -> PayloadBytes] : n \in 0..MaxShortLen}
\* One payload of every length, from each seed.
PatternSeeds == {0, 170}
Pattern(n, seed) == [i \in 1..n |-> (seed + (37 * i)) % ByteModulus]
LongPayloads == {Pattern(n, seed) : n \in 0..MaxPayloadLen, seed \in PatternSeeds}
Opcodes == 0..255
LongOpcodes == {RUNTIME_INFO, 255}

\* The bytes of the exhaustively enumerated received buffers.
BufBytes == {START_BYTE, IDENTIFIER_BYTE, 0, 5, DEVICE_INFO, 85}
RawBuffers == UNION {[1..n -> BufBytes] : n \in 0..MaxBufLen}

\* Received buffers that carry text: a head (nothing, a frame header of each
\* dispatched opcode and of another one, a byte that is not START), then k
\* fields "1_", then a last field of pad digits.
BufferHeads ==
    {<<>>, <<Digit0>>,
     <<START_BYTE, 5, IDENTIFIER_BYTE, RUNTIME_INFO>>,
     <<START_BYTE, 5, IDENTIFIER_BYTE, DEVICE_INFO>>,
     <<START_BYTE, 5, IDENTIFIER_BYTE, SET_WIFI>>}
RECURSIVE Fields(_)
Fields(k) == IF k = 0 THEN <<>> ELSE <<Digit0 + 1, Underscore>> \o Fields(k - 1)
Digits(n) == [i \in 1..n |-> Digit0 + i]
TextBuffers ==
    {head \o Fields(k) \o Digits(pad) :
        head \in BufferHeads, k \in 0..MaxUnderscores, pad \in 0..MaxPad}

\* The texts a device-info frame carries: up to MaxPairs parts joined by
\* commas.  The parts: k=v, k=w, k2=v2, " k = v " with blanks, parts with an
\* empty key or value, without "=", and with two "=", the empty part,
\* __proto__=v, and a_b=1.
PairTexts ==
    {<<107, 61, 118>>, <<107, 61, 119>>, <<107, 50, 61, 118, 50>>,
     <<32, 107, 32, 61, 32, 118, 32>>,
     <<107, 61>>, <<61, 118>>, <<107>>, <<107, 61, 32>>,
     <<107, 61, 118, 61, 119>>, <<>>,
     ProtoKey \o <<61, 118>>, <<97, 95, 98, 61, 49>>}
RECURSIVE JoinedBy(_, _)
\* parts.join(sep)
JoinedBy(parts, sep) ==
    IF parts = <<>> THEN <<>>
    ELSE IF Len(parts) = 1 THEN parts[1]
    ELSE parts[1] \o <<sep>> \o JoinedBy(Tail(parts), sep)
DeviceTexts ==
    {JoinedBy(parts, Comma) :
        parts \in UNION {[1..n -> PairTexts] : n \in 0..MaxPairs}}

\* The texts a cell-info frame carries: soc_t1_t2_v1_..._vn in decimal, with
\* up to MaxCells voltages.
SocTexts == {<<56, 48>>, <<53>>}
VoltageTexts == {<<51, 50, 48, 48>>, <<51, 50, 48, 49>>, <<51, 50, 48, 50>>}
CellTexts ==
    {JoinedBy(<<soc, <<50, 53>>, <<50, 54>>>> \o voltages, Underscore) :
        soc \in SocTexts,
        voltages \in UNION {[1..n -> VoltageTexts] : n \in 0..MaxCells}}

NoResult == Threw("")

\* No MQTTConfig given, nothing built
NoConfig == [ssl |-> FALSE, host |-> <<>>, port |-> <<>>, username |-> Null,
             password |-> Null]
NotBuilt == Thrown("")

\* The MQTTConfig objects given to createMqttConfigPayload: a host that is
\* empty, "h" or "h\u00e9", a port that is empty or "1883", a username and a
\* password that are missing, empty or one letter.
MqttConfigs ==
    [ssl : BOOLEAN, host : {<<>>, <<104>>, <<104, 233>>}, port : {<<>>, MqttPort},
     username : {Null, Some(<<>>), Some(<<117>>)},
     password : {Null, Some(<<>>), Some(<<112>>)}]

CodecIdle ==
    /\ cmd = 0 /\ payload = <<>> /\ frame = <<>> /\ buf = <<>>
    /\ valid = FALSE /\ parsed = NoResult /\ cpc = "idle"
    /\ config = NoConfig /\ built = NotBuilt

CodecInit ==
    /\ Constructed /\ autoReconnect = TRUE
    /\ frame = <<>> /\ valid = FALSE /\ parsed = NoResult /\ built = NotBuilt
    /\ \/ /\ cpc = "command" /\ buf = <<>> /\ config = NoConfig
          /\ \/ cmd \in Opcodes /\ payload \in ShortPayloads
             \/ cmd \in LongOpcodes /\ payload \in LongPayloads
             \/ cmd = DEVICE_INFO /\ payload \in DeviceTexts
             \/ cmd = CELL_INFO /\ payload \in CellTexts
       \/ /\ cpc = "received" /\ cmd = 0 /\ payload = <<>> /\ config = NoConfig
          /\ buf \in RawBuffers \cup TextBuffers
       \/ /\ cpc = "config" /\ cmd = 0 /\ payload = <<>> /\ buf = <<>>
          /\ config \in MqttConfigs

\* configBytes = protocol.createMqttConfigPayload(config); the bytes go on
\* into the frame of SET_MQTT
BuildMqttConfigPayload ==
    /\ cpc = "config"
    /\ built' = createMqttConfigPayload(config)
    /\ IF built'.threw
       THEN cpc' = "threw" /\ UNCHANGED <<cmd, payload>>
       ELSE cpc' = "command" /\ cmd' = SET_MQTT /\ payload' = built'.bytes
    /\ UNCHANGED <<frame, buf, valid, parsed, config>>
    /\ UNCHANGED sessVars

\* frame = protocol.createCommandMessage(cmd, payload)
Encode ==
    /\ cpc = "command"
    /\ frame' = createCommandMessage(cmd, payload)
    /\ cpc' = "encoded"
    /\ UNCHANGED <<cmd, payload, buf, valid, parsed, config, built>>
    /\ UNCHANGED sessVars

\* protocol.isValidMessage(frame), on the frame just built
ValidateFrame ==
    /\ cpc = "encoded"
    /\ buf' = frame
    /\ valid' = isValidMessage(frame)
    /\ cpc' = "validated"
    /\ UNCHANGED <<cmd, payload, frame, parsed, config, built>>
    /\ UNCHANGED sessVars

\* protocol.isValidMessage(buf), on a received buffer
ValidateBuffer ==
    /\ cpc = "received"
    /\ valid' = isValidMessage(buf)
    /\ cpc' = "checked"
    /\ UNCHANGED <<cmd, payload, frame, buf, parsed, config, built>>
    /\ UNCHANGED sessVars

\* protocol.parseMessage(new DataView(buf)), on a received buffer
ParseBuffer ==
    /\ cpc = "received"
    /\ parsed' = parseMessage(buf)
    /\ cpc' = "parsed"
    /\ UNCHANGED <<cmd, payload, frame, buf, valid, config, built>>
    /\ UNCHANGED sessVars

\* protocol.parseMessage(new DataView(frame.buffer)), on a frame built as the
\* device builds its answers: header, bytes, checksum
ParseFrame ==
    /\ cpc = "encoded"
    /\ buf' = frame
    /\ parsed' = parseMessage(frame)
    /\ cpc' = "parsed"
    /\ UNCHANGED <<cmd, payload, frame, valid, config, built>>
    /\ UNCHANGED sessVars

\* protocol.parseCellInfo(new DataView(frame.buffer)), on a frame built as
\* the device builds its answers
DecodeCellInfo ==
    /\ cpc = "encoded"
    /\ buf' = frame
    /\ parsed' = Typed(CELL_INFO, frame, parseCellInfo(frame))
    /\ cpc' = "cellDecoded"
    /\ UNCHANGED <<cmd, payload, frame, valid, config, built>>
    /\ UNCHANGED sessVars

\* The opcodes of the frames of which single bytes are changed
ChangedOpcodes == LongOpcodes

\* One byte of a frame that isValidMessage accepted is changed to another
\* value, and protocol.isValidMessage is asked again.
ChangeOneByte ==
    /\ cpc = "validated"
    /\ valid
    /\ cmd \in ChangedOpcodes
    /\ Len(buf) <= MaxChangedLen
    /\ \E i \in 1..Len(buf), v \in 0..255 :
          /\ v # buf[i]
          /\ buf' = [buf EXCEPT ![i] = v]
    /\ valid' = isValidMessage(buf')
    /\ cpc' = "changed"
    /\ UNCHANGED <<cmd, payload, frame, parsed, config, built>>
    /\ UNCHANGED sessVars

\* The wrong values given to the last byte of a frame
WrongLastBytes(checksum) ==
    {(checksum + 1) % ByteModulus, (ByteModulus - 1) - checksum, Underscore}
        \ {checksum}

\* The last byte of a RUNTIME_INFO or DEVICE_INFO frame that isValidMessage
\* accepted is changed to a wrong value, and protocol.isValidMessage is asked
\* again.
ChangeLastByte ==
    /\ cpc = "validated"
    /\ valid
    /\ buf = frame
    /\ cmd \in {RUNTIME_INFO, DEVICE_INFO}
    /\ \E v \in WrongLastBytes(buf[Len(buf)]) :
          buf' = [buf EXCEPT ![Len(buf)] = v]
    /\ valid' = isValidMessage(buf')
    /\ cpc' = "lastByteChanged"
    /\ UNCHANGED <<cmd, payload, frame, parsed, config, built>>
    /\ UNCHANGED sessVars

\* protocol.parseMessage(buf), on the frame with the wrong last byte
ParseChanged ==
    /\ cpc = "lastByteChanged"
    /\ parsed' = parseMessage(buf)
    /\ cpc' = "changedParsed"
    /\ UNCHANGED <<cmd, payload, frame, buf, valid, config, built>>
    /\ UNCHANGED sessVars

vars == <<codecVars, sessVars>>

CodecNext ==
    \/ Encode
    \/ ValidateFrame
    \/ ValidateBuffer
    \/ ParseBuffer
    \/ ParseFrame
    \/ DecodeCellInfo
    \/ BuildMqttConfigPayload
    \/ ChangeOneByte
    \/ ChangeLastByte
    \/ ParseChanged

SpecCodec == CodecInit /\ [][CodecNext]_vars

(***************************************************************************)
(* The session as a state machine: the caller, the transport and the       *)
(* timers act on one BLEDeviceManager.                                     *)
(***************************************************************************)
Next ==
    \/ \E withDevice \in BOOLEAN : ConnectCall(withDevice)
    \/ \E slot \in 1..MaxConnectCalls, ok \in BOOLEAN : ConnectStep(slot, ok)
    \/ Disconnect
    \/ LinkDrop
    \/ LossReport
    \/ \E enable \in BOOLEAN : SetAutoReconnect(enable)
    \/ \E slot \in 1..MaxReconnects : ReconnectTimer(slot)
    \/ \E slot \in 1..MaxReconnects, ok \in BOOLEAN : ReconnectStep(slot, ok)

\* A new session, built with or without auto-reconnect.
Init ==
    /\ Constructed
    /\ autoReconnect \in BOOLEAN
    /\ CodecIdle

Spec == Init /\ [][Next]_vars

(***************************************************************************)
(* The get* calls on a session built with autoReconnect: false.            *)
(***************************************************************************)
RequestInit == Constructed /\ autoReconnect = FALSE /\ CodecIdle

RequestNext ==
    \/ \E withDevice \in BOOLEAN : ConnectCall(withDevice)
    \/ \E slot \in 1..MaxConnectCalls, ok \in BOOLEAN : ConnectStep(slot, ok)
    \/ Disconnect
    \/ LinkDrop
    \/ LossReport
    \/ \E kind \in InfoKinds : GetInfo(kind)
    \/ \E kind \in ConfigKinds, complete \in BOOLEAN : SetConfig(kind, complete)
    \/ \E twice \in BOOLEAN : SendCommand(twice)
    \/ SendRawBytes
    \/ \E slot \in 1..MaxRequests, ok \in BOOLEAN : WriteDone(slot, ok)
    \/ \E slot \in 1..MaxRequests : Timeout(slot)
    \/ \E value \in Notifications : Notify(value)

SpecRequests == RequestInit /\ [][RequestNext]_vars

\* Timers fire: a timer that stays pending is eventually run.
SpecLive == SpecRequests /\ \A slot \in 1..MaxRequests : WF_vars(Timeout(slot))

(***************************************************************************)
(* Overlapping get* calls: a caller that connects once and makes up to     *)
(* MaxPending get* calls without waiting for the previous one.             *)
(***************************************************************************)
PairInit == ConstructedFor(MaxPending) /\ autoReconnect = FALSE /\ CodecIdle

PairNext ==
    \/ ConnectCall(TRUE)
    \/ \E slot \in 1..MaxConnectCalls, ok \in BOOLEAN : ConnectStep(slot, ok)
    \/ LinkDrop
    \/ LossReport
    \/ \E kind \in InfoKinds : GetInfo(kind)
    \/ \E slot \in 1..MaxPending, ok \in BOOLEAN : WriteDone(slot, ok)
    \/ \E slot \in 1..MaxPending : Timeout(slot)
    \/ \E value \in Notifications : Notify(value)

SpecPair == PairInit /\ [][PairNext]_vars

(***************************************************************************)
(* The session with auto-reconnect, while the device sends notifications.  *)
(***************************************************************************)
NotifyNext ==
    \/ \E withDevice \in BOOLEAN : ConnectCall(withDevice)
    \/ \E slot \in 1..MaxConnectCalls, ok \in BOOLEAN : ConnectStep(slot, ok)
    \/ Disconnect
    \/ LinkDrop
    \/ LossReport
    \/ \E enable \in BOOLEAN : SetAutoReconnect(enable)
    \/ \E slot \in 1..MaxReconnects : ReconnectTimer(slot)
    \/ \E slot \in 1..MaxReconnects, ok \in BOOLEAN : ReconnectStep(slot, ok)
    \/ \E value \in Notifications : Notify(value)

SpecNotify == Init /\ [][NotifyNext]_vars

(***************************************************************************)
(* The callbacks of the caller: on(), off() and the delivery of the events *)
(* of a session built with autoReconnect: false.                           *)
(***************************************************************************)
\* The events the caller listens to
ListenedEvents == {"connect", "rawData"}

UnusedListenerIds ==
    (1..MaxListeners) \ {eventListeners[i].id : i \in 1..Len(eventListeners)}

\* What on() and off() leave alone
ListenerFrame(name) ==
    /\ emitted' = <<>>
    /\ op' = name
    /\ returned' = <<>>
    /\ errors' = <<>>
    /\ delivered' = <<>>
    /\ propagated' = FALSE
    /\ UNCHANGED <<device, commandCharacteristic, statusCharacteristic, connected,
                   connecting, explicitDisconnect, autoReconnect, gattConnected,
                   lossPending, devListener, notifRegs, connectCalls, reconnects,
                   requests, lastLifecycle, intentional, failedReconnect>>
    /\ UNCHANGED codecVars

\* on(event, callback)
On(event, behaviour) ==
    /\ UnusedListenerIds # {}
    /\ eventListeners' =
         Append(eventListeners, [id |-> Lowest(UnusedListenerIds), event |-> event,
                                 behaviour |-> behaviour])
    /\ ListenerFrame("on")

\* off(event, callback)
Off(id) ==
    /\ \E i \in 1..Len(eventListeners) : eventListeners[i].id = id
    /\ eventListeners' = SelectSeq(eventListeners, LAMBDA callback : callback.id # id)
    /\ ListenerFrame("off")

EventsInit == Constructed /\ autoReconnect = FALSE /\ CodecIdle

EventsNext ==
    \/ ConnectCall(TRUE)
    \/ \E slot \in 1..MaxConnectCalls, ok \in BOOLEAN : ConnectStep(slot, ok)
    \/ LinkDrop
    \/ LossReport
    \/ \E value \in Notifications : Notify(value)
    \/ \E event \in ListenedEvents, behaviour \in Behaviours : On(event, behaviour)
    \/ \E id \in 1..MaxListeners : Off(id)

SpecEvents == EventsInit /\ [][EventsNext]_vars

(***************************************************************************)
(* Properties of the codec                                                 *)
(***************************************************************************)
\* Bit k of the XOR of a byte sequence is the parity of the number of its
\* bytes that have bit k set: the checksum, stated without the fold.
ParityBit(bytes, k) ==
    Cardinality({i \in 1..Len(bytes) : (bytes[i] \div (2 ^ k)) % 2 = 1}) % 2
XorOfBytes(bytes) ==
    ParityBit(bytes, 0) + (2 * ParityBit(bytes, 1)) + (4 * ParityBit(bytes, 2))
    + (8 * ParityBit(bytes, 3)) + (16 * ParityBit(bytes, 4))
    + (32 * ParityBit(bytes, 5)) + (64 * ParityBit(bytes, 6))
    + (128 * ParityBit(bytes, 7))

\* The Frame invariant of a frame built from command c and payload p.
FrameInvariant(f, c, p) ==
    /\ Len(f) = Len(p) + 5
    /\ f[1] = START_BYTE
    /\ f[2] = Len(f)
    /\ f[3] = IDENTIFIER_BYTE
    /\ f[4] = c
    /\ SubSeq(f, 5, Len(f) - 1) = p
    /\ f[Len(f)] = XorOfBytes(SubSeq(f, 1, Len(f) - 1))

\* C1: for every opcode in 0..255 and every payload of 0 to 20 bytes,
\* isValidMessage(createCommandMessage(c, p)) is true.
C1_EncodedFrameIsValid ==
    (cpc = "validated" /\ cmd \in 0..255 /\ Len(payload) <= 20) => valid = TRUE

C1_Witness ==
    cpc = "validated" /\ Len(payload) = 20 /\ cmd = 255 /\ valid = TRUE

\* C2: isValidMessage returns false exactly when the buffer is shorter than
\* 5 bytes, byte 0 is not START, byte 1 is not the byte count, byte 2 is not
\* IDENTIFIER, or the last byte is not the XOR of the bytes before it.
C2_IsValidMessageExact ==
    cpc \in {"checked", "validated"} =>
        (valid = FALSE <=>
            \/ Len(buf) < 5
            \/ buf[1] # START_BYTE
            \/ buf[2] # Len(buf)
            \/ buf[3] # IDENTIFIER_BYTE
            \/ buf[Len(buf)] # XorOfBytes(SubSeq(buf, 1, Len(buf) - 1)))

\* A received buffer whose only defect is its checksum byte.
C2_Witness ==
    /\ cpc = "checked" /\ Len(buf) = 5 /\ buf[1] = START_BYTE /\ buf[2] = 5
    /\ buf[3] = IDENTIFIER_BYTE /\ buf[5] # XorOfBytes(SubSeq(buf, 1, 4))
    /\ valid = FALSE

\* The largest payload whose frame length still fits the LENGTH byte.
MaxFramedPayload == (ByteModulus - 1) - 5

\* C3 (as amended): for every command in 0..255 and every payload of at most
\* 250 bytes, createCommandMessage returns a frame that satisfies the Frame
\* invariant.
C3_FrameInvariantUpTo250 ==
    (cpc \in {"encoded", "validated"} /\ Len(payload) <= MaxFramedPayload)
        => FrameInvariant(frame, cmd, payload)

C3_Witness ==
    /\ cpc = "encoded" /\ Len(payload) = MaxFramedPayload
    /\ FrameInvariant(frame, cmd, payload)

\* C3 (as claimed): for every command in 0..255 and every payload, whatever
\* its length, the frame satisfies the Frame invariant.
C3_FrameInvariantAnyLength ==
    cpc \in {"encoded", "validated"} => FrameInvariant(frame, cmd, payload)

\* C4 (as claimed): parseMessage never throws: for every input buffer it
\* returns a ParsedMessage, of type unknown with an error classification
\* when it cannot decode the buffer.
C4_ParserNeverThrows ==
    cpc = "parsed" =>
        /\ parsed.threw = FALSE
        /\ parsed.rawData = buf
        /\ \/ parsed.type \in {RUNTIME_INFO, DEVICE_INFO, CELL_INFO}
           \/ /\ parsed.type = UNKNOWN_TYPE
              /\ parsed.error \in {INVALID_START_BYTE, INVALID_LENGTH,
                                   CHECKSUM_MISMATCH, UNKNOWN_COMMAND}

(***************************************************************************)
(* Properties of the get* calls                                            *)
(***************************************************************************)
Settled(r) == r.promise \in {"resolved", "rejected"}

\* C5: a getDeviceInfo, getRuntimeInfo or getCellInfo call settles once, and
\* a settled call is cleaned up: whichever of the matching event, the timeout
\* and the failure of the send came first, from then on the registry holds no
\* listener of the call, no timer of the call is pending, and the outcome of
\* the call never changes, whatever the notifications, the timer and the two
\* writes do afterwards.
C5_SettlesOnceAndCleansUp ==
    [][\A i \in 1..MaxRequests :
          /\ Settled(requests'[i]) => ~requests'[i].listener /\ ~requests'[i].timer
          /\ Settled(requests[i]) =>
                /\ requests'[i].promise = requests[i].promise
                /\ requests'[i].reason = requests[i].reason
                /\ requests'[i].value = requests[i].value]_vars

\* The matching event came first and the send failed afterwards: the call
\* stays resolved.
C5_Witness ==
    \E i \in 1..MaxRequests :
        /\ requests[i].promise = "resolved"
        /\ requests[i].send = "failed"
        /\ op = "write"

\* C6: when the timer of a getDeviceInfo call fires, the call rejects with
\* the timeout error and its listener is no longer registered; the timer was
\* set to the default of 5000 ms; and, timers firing, every get* call that is
\* pending eventually settles, even if its write never completes.
C6_TimeoutRejectsAndEveryCallSettles ==
    /\ [][\A i \in 1..MaxRequests :
             (op' = "timeout" /\ requests[i].timer /\ ~requests'[i].timer) =>
                /\ requests[i].timeout = defaultTimeout
                /\ requests'[i].promise = "rejected"
                /\ requests'[i].reason = "Command timed out"
                /\ ~requests'[i].listener]_vars
    /\ \A i \in 1..MaxRequests :
          (requests[i].kind \in InfoKinds /\ requests[i].promise = "pending")
              ~> Settled(requests[i])

\* A getDeviceInfo call on a connected session timed out while its first
\* write was still outstanding.
C6_Witness ==
    \E i \in 1..MaxRequests :
        /\ op = "timeout"
        /\ connected
        /\ requests[i].kind = "deviceInfo"
        /\ requests[i].promise = "rejected"
        /\ requests[i].reason = "Command timed out"
        /\ requests[i].send = "write1"

(***************************************************************************)
(* Properties of the connection lifecycle                                  *)
(***************************************************************************)

\* C7: intentional disconnects never trigger auto-reconnect: no reconnect
\* attempt is scheduled or runs that was scheduled for the closure of a link
\* after the caller called disconnect() on the Connected session, whatever the
\* state of the link and of its loss report at the call.
C7_IntentionalDisconnectNeverReconnects ==
    \A slot \in 1..MaxReconnects :
        reconnects[slot].pc # "idle" => ~reconnects[slot].afterDisconnectCall

\* The reconnect timers a step starts
NewlyScheduled ==
    {slot \in 1..MaxReconnects :
        reconnects[slot].pc = "idle" /\ reconnects'[slot].pc = "timer"}

\* C8: the report of an unsolicited link loss on a Connected session, with
\* auto-reconnect enabled and the disconnect not intentional (no disconnect()
\* call in this Connected period, and none recorded by the session), schedules
\* exactly one reconnect attempt, at the configured delay; and a reconnect event is
\* emitted only by an attempt that succeeded, once notifications are
\* subscribed again.
C8_UnsolicitedLossSchedulesOneAttempt ==
    [][/\ (/\ op' = "lossReport" /\ connected /\ autoReconnect
           /\ ~intentional /\ ~explicitDisconnect) =>
             /\ Cardinality(NewlyScheduled) = 1
             /\ \A slot \in NewlyScheduled : reconnects'[slot].delay = reconnectDelay
       /\ "reconnect" \in Range(emitted') =>
             /\ op' = "reconnected"
             /\ gattConnected'
             /\ notifRegs' > 0]_vars

\* The steps of a reconnect attempt
AttemptOps == {"timer", "reconnectStep", "reconnected", "reconnectFailed"}

\* C9: a failed reconnect attempt emits an error event, leaves the session
\* Disconnected (not connected, not connecting) and schedules no attempt; and
\* after it no reconnect attempt runs until the caller calls connect().
C9_FailedReconnectLeavesDisconnected ==
    [][/\ op' = "reconnectFailed" =>
             /\ "error" \in Range(emitted')
             /\ ~connected'
             /\ ~connecting'
             /\ NewlyScheduled = {}
       /\ failedReconnect => op' \notin AttemptOps]_vars

\* C10: a disconnect event is emitted at most once per Connected period: the
\* lifecycle event before a disconnect event is a connect or a reconnect
\* event; and a link-loss report or a disconnect() call handled while the
\* session is not Connected emits no event, clears no handle and schedules no
\* reconnect.
C10_DisconnectOncePerConnectedPeriod ==
    [][/\ "disconnect" \in Range(emitted') =>
             /\ lastLifecycle \in {"connect", "reconnect"}
             /\ emitted' = <<"disconnect">>
       /\ (op' \in {"lossReport", "disconnect"} /\ ~connected) =>
             /\ emitted' = <<>>
             /\ device' = device
             /\ commandCharacteristic' = commandCharacteristic
             /\ statusCharacteristic' = statusCharacteristic
             /\ reconnects' = reconnects]_vars

\* A loss report was handled while the session was not Connected, after the
\* disconnect event of the last Connected period: it emitted nothing.
C10_Witness ==
    /\ op = "lossReport"
    /\ emitted = <<>>
    /\ lastLifecycle = "disconnect"
    /\ ~connected
    /\ devListener

\* C11: connect() called while the session is connecting or connected is a
\* no-op: it returns the current device handle, changes no field of the
\* session, emits no event and starts no transport operation.
C11_ConnectWhileBusyIsNoOp ==
    [][(op' = "connect" /\ (connecting \/ connected)) =>
          /\ returned' = <<"resolved", device>>
          /\ emitted' = <<>>
          /\ UNCHANGED <<device, commandCharacteristic, statusCharacteristic, connected,
                         connecting, explicitDisconnect, autoReconnect, gattConnected,
                         lossPending, devListener, notifRegs, connectCalls, reconnects,
                         requests>>]_vars

\* connect() was called on a connected session and returned its device.
C11_Witness ==
    /\ op = "connect"
    /\ connected
    /\ returned = <<"resolved", TheDevice>>

\* The connect() calls a step ends otherwise than by their success
EndedByFailure ==
    {slot \in 1..MaxConnectCalls :
        connectCalls[slot] # "idle" /\ connectCalls'[slot] = "idle" /\ op' # "connected"}

\* C12: when a step of connect() fails (discovery, opening the link, service
\* or characteristic lookup, notification subscription), the session is left
\* neither connected nor connecting, exactly one error event is emitted, and
\* the call rejects with the error handed to that event.
C12_ConnectFailureLeavesDisconnected ==
    [][(EndedByFailure # {} \/ op' = "connectFailed") =>
          /\ op' = "connectFailed"
          /\ ~connected'
          /\ ~connecting'
          /\ emitted' = <<"error">>
          /\ Len(errors') = 1
          /\ returned' = <<"rejected", errors'[1]>>]_vars

\* The discovery of a connect() call failed.
C12_Witness ==
    /\ op = "connectFailed"
    /\ returned = <<"rejected", "scan">>
    /\ emitted = <<"error">>
    /\ ~connected /\ ~connecting

(***************************************************************************)
(* Properties of the command-sending calls                                 *)
(***************************************************************************)

\* The calls the caller makes in a step
NewCalls == {i \in DOMAIN requests : requests[i].kind = "none" /\ requests'[i].kind # "none"}

\* C13: every command-sending call (getDeviceInfo, getRuntimeInfo,
\* getCellInfo, resetMqttConfig, sendRawBytes, sendCommand, and setWifiConfig
\* and setMqttConfig with their arguments present) made while the session is
\* not connected rejects with the not-connected error, hands no write to the
\* transport and leaves no listener and no timer of the call registered.
C13_NotConnectedRejects ==
    [][\A i \in NewCalls :
          (~connected /\ op' # "setIncomplete") =>
             /\ requests'[i].promise = "rejected"
             /\ requests'[i].reason = "Not connected to device"
             /\ requests'[i].writes = <<>>
             /\ requests'[i].send = "failed"
             /\ ~requests'[i].listener
             /\ ~requests'[i].timer]_vars

\* sendRawBytes was called on a session that a failed connect() left with a
\* command characteristic but not connected.
C13_Witness ==
    \E i \in DOMAIN requests :
        /\ op = "raw"
        /\ ~connected
        /\ commandCharacteristic # NullCharacteristic
        /\ requests[i].kind = "rawBytes"
        /\ requests[i].promise = "rejected"
        /\ requests[i].reason = "Not connected to device"

\* The frame a call sends
EncodedFrame(r) ==
    IF r.kind = "rawBytes" THEN RawBytes
    ELSE createCommandMessage(CommandOf(r.kind), PayloadOf(r.kind))

\* C14: a sendCommand that completes has handed the same encoded frame to
\* the transport exactly twice, and exactly once with sendTwice false; when
\* the first write fails no second write is made, then or later, and
\* sendCommand rejects: the error event is emitted and a call still pending
\* is rejected.
C14_WritesTwiceOrOnce ==
    [][\A i \in DOMAIN requests :
          /\ requests'[i].send = "sent" =>
                requests'[i].writes =
                   IF requests'[i].sendTwice
                   THEN <<EncodedFrame(requests'[i]), EncodedFrame(requests'[i])>>
                   ELSE <<EncodedFrame(requests'[i])>>
          /\ (requests[i].send = "write1" /\ requests'[i].send = "failed") =>
                /\ requests'[i].writes = <<EncodedFrame(requests[i])>>
                /\ "error" \in Range(emitted')
                /\ requests[i].promise = "pending" => requests'[i].promise = "rejected"
          /\ requests[i].send = "failed" =>
                /\ requests'[i].send = "failed"
                /\ requests'[i].writes = requests[i].writes]_vars

\* A sendCommand with sendTwice false completed after one write.
C14_Witness ==
    \E i \in DOMAIN requests :
        /\ requests[i].kind = "command"
        /\ ~requests[i].sendTwice
        /\ requests[i].send = "sent"
        /\ requests[i].promise = "resolved"
        /\ Len(requests[i].writes) = 1

\* The calls a step resolves
ResolvedByStep ==
    {i \in DOMAIN requests :
        requests[i].promise = "pending" /\ requests'[i].promise = "resolved"}

\* C15: one notification resolves at most one pending call: of two pending
\* calls of the same kind, a single characteristicvaluechanged event leaves
\* at least one pending.
C15_OneNotificationOneRequest ==
    [][op' = "notify" => Cardinality(ResolvedByStep) <= 1]_vars

\* The pending get* calls
PendingInfo ==
    {i \in DOMAIN requests :
        requests[i].kind \in InfoKinds /\ requests[i].promise = "pending"}

\* The steps of a link loss and of disconnect()
LossOps == {"linkDrop", "lossReport", "disconnect"}

\* A step of a link loss or of disconnect() leaves call i pending, with its
\* listener and its timer, and changes nothing else of it.
KeptPending(i) ==
    op' \in LossOps =>
        /\ requests[i].listener /\ requests[i].timer
        /\ requests'[i] = [requests[i] EXCEPT !.lostLink = requests'[i].lostLink]

\* C16, as the code has it: a link loss or a disconnect() call leaves a
\* pending get* call pending, with its listener and its timer; after it the
\* call is settled by its timeout, by an event of its kind, or by the failure
\* of its send (the write that was in flight when the link was lost fails,
\* and the call rejects with that error), and by nothing else.
C16_LossLeavesPendingUntilTimeoutEventOrSendFailure ==
    [][\A i \in PendingInfo :
          /\ KeptPending(i)
          /\ requests[i].lostLink /\ Settled(requests'[i])
                => op' \in {"timeout", "notify", "write"}]_vars

\* A get* call that was pending when the link was lost, rejected by the
\* failure of its write
C16_Witness ==
    \E i \in DOMAIN requests :
        /\ requests[i].kind \in InfoKinds
        /\ requests[i].lostLink
        /\ requests[i].promise = "rejected"
        /\ requests[i].reason = "write"
        /\ op = "write"

\* C16, as stated: after a link loss or a disconnect() call a pending get*
\* call stays pending, with its listener and its timer, until its timeout
\* fires or an event of its kind arrives.
C16_LossLeavesPendingUntilTimeoutOrEvent ==
    [][\A i \in PendingInfo :
          /\ KeptPending(i)
          /\ requests[i].lostLink /\ Settled(requests'[i])
                => op' \in {"timeout", "notify"}]_vars

\* The calls of setWifiConfig, setMqttConfig and resetMqttConfig
ConfigCalls == {i \in DOMAIN requests : requests[i].kind \in ConfigKinds}

Underscores == Cardinality({i \in DOMAIN buf : buf[i] = 95})

\* C19, as the code has it: parseMessage classifies a buffer as CellInfo
\* exactly when it holds at least 10 bytes and its text has exactly 16 or
\* exactly 3 underscores, whatever its first byte and its opcode byte are.
C19_CellInfoByUnderscoresFromTenBytes ==
    cpc = "parsed" =>
        (Len(buf) >= 10 /\ Underscores \in {3, 16}
            <=> ~parsed.threw /\ parsed.type = CELL_INFO)

\* A buffer with the header of a device-info frame and 16 underscores,
\* classified as CellInfo
C19_Witness ==
    /\ cpc = "parsed"
    /\ Len(buf) >= 10
    /\ buf[1] = START_BYTE /\ buf[4] = DEVICE_INFO
    /\ Underscores = 16
    /\ parsed.type = CELL_INFO

\* C19, as stated: parseMessage classifies as CellInfo every buffer whose
\* text has exactly 16 or exactly 3 underscores.
C19_CellInfoByUnderscores ==
    cpc = "parsed" /\ Underscores \in {3, 16}
        => ~parsed.threw /\ parsed.type = CELL_INFO

\* C20, as the code has it: a buffer whose first byte is not START, and
\* that is not taken for cell info (it is shorter than 10 bytes, or its
\* underscores are neither 3 nor 16), parses to unknown with
\* INVALID_START_BYTE and no data.
C20_InvalidStartByteUnlessCellInfo ==
    /\ cpc = "parsed"
    /\ buf # <<>>
    /\ buf[1] # START_BYTE
    /\ ~(Len(buf) >= 10 /\ Underscores \in {3, 16})
    => /\ ~parsed.threw
       /\ parsed.type = UNKNOWN_TYPE
       /\ parsed.error = INVALID_START_BYTE
       /\ parsed.data = Null

\* A text of more than 10 bytes with 4 underscores and a first byte that is
\* not START, parsed to unknown
C20_Witness ==
    /\ cpc = "parsed"
    /\ Len(buf) >= 10
    /\ buf[1] # START_BYTE
    /\ Underscores = 4
    /\ parsed.error = INVALID_START_BYTE

\* C20, as stated: every buffer whose first byte is not START parses to
\* unknown with INVALID_START_BYTE.
C20_InvalidStartByteAlways ==
    cpc = "parsed" /\ buf # <<>> /\ buf[1] # START_BYTE
        => /\ ~parsed.threw
           /\ parsed.type = UNKNOWN_TYPE
           /\ parsed.error = INVALID_START_BYTE

\* The received buffer is one the cell-info test selects
SelectedAsCellInfo == Len(buf) >= 10 /\ Underscores \in {3, 16}

\* The received buffer has the START byte, its own length as LENGTH byte,
\* the IDENTIFIER byte, and an opcode byte
HeaderCorrect ==
    /\ Len(buf) >= 4
    /\ buf[1] = 115 /\ buf[2] = Len(buf) /\ buf[3] = 35

\* C21: a buffer the cell-info test does not select, with a correct START,
\* LENGTH and IDENTIFIER byte, parses by its opcode byte alone: 0x04 to a
\* DeviceInfo message, 0x03 to a RuntimeInfo message, every other opcode to
\* unknown with UNKNOWN_COMMAND; the result carries the bytes given.
C21_DispatchOnOpcodeAlone ==
    cpc = "parsed" /\ ~SelectedAsCellInfo /\ HeaderCorrect =>
        /\ ~parsed.threw
        /\ parsed.rawData = buf
        /\ buf[4] = 4 => parsed.type = DEVICE_INFO
        /\ buf[4] = 3 => parsed.type = RUNTIME_INFO
        /\ buf[4] \notin {3, 4} =>
              /\ parsed.type = UNKNOWN_TYPE
              /\ parsed.error = UNKNOWN_COMMAND
              /\ parsed.data = Null

\* A frame of the opcode of cell info (0x0F) that the cell-info test does not
\* select, parsed to unknown
C21_Witness ==
    /\ cpc = "parsed" /\ ~SelectedAsCellInfo /\ HeaderCorrect
    /\ buf[4] = 15
    /\ parsed.type = UNKNOWN_TYPE
    /\ parsed.error = UNKNOWN_COMMAND

\* A device-info frame was built around the text in payload and parsed
DeviceInfoFrameParsed ==
    /\ cpc = "parsed" /\ buf = frame /\ cmd = 4
    /\ Len(payload) <= 250

\* The parts of the text between the commas, as <<first, last>> positions
PartBounds ==
    LET n == Len(payload)
        commas == {i \in 1..n : payload[i] = 44}
    IN  {<<a, b>> \in (1..(n + 1)) \X (0..n) :
            /\ a - 1 <= b
            /\ a = 1 \/ a - 1 \in commas
            /\ b = n \/ b + 1 \in commas
            /\ \A i \in a..b : i \notin commas}

IsBlank(b) == b \in {9, 10, 11, 12, 13, 32}

\* The text from position a to position b without the blanks around it
Trimmed(a, b) ==
    LET inked == {i \in a..b : ~IsBlank(payload[i])}
    IN  IF inked = {} THEN <<>>
        ELSE SubSeq(payload, CHOOSE i \in inked : \A j \in inked : i <= j,
                             CHOOSE i \in inked : \A j \in inked : j <= i)

\* The parts that hold exactly one "=", with a key before it and a value after
\* it that are not empty once trimmed: <<first, position of "=", last>>
GoodPairs ==
    {<<pb[1], e, pb[2]>> : pb \in PartBounds, e \in 1..Len(payload)} \cap
    {t \in (1..(Len(payload) + 1)) \X (1..Len(payload)) \X (0..Len(payload)) :
        /\ t[1] <= t[2] /\ t[2] <= t[3]
        /\ {i \in t[1]..t[3] : payload[i] = 61} = {t[2]}
        /\ Trimmed(t[1], t[2] - 1) # <<>>
        /\ Trimmed(t[2] + 1, t[3]) # <<>>}

KeyOf(t) == Trimmed(t[1], t[2] - 1)
ValueOf(t) == Trimmed(t[2] + 1, t[3])

UnderscoreAt == {i \in 1..Len(payload) : payload[i] = 95}
NthUnderscore(k) ==
    IF k = 0 THEN 0
    ELSE IF k > Cardinality(UnderscoreAt) THEN Len(payload) + 1
    ELSE CHOOSE p \in UnderscoreAt : Cardinality({q \in UnderscoreAt : q < p}) = k - 1

RECURSIVE DecimalValue(_, _)
\* The number the digits at positions a..b of the payload write
DecimalValue(a, b) ==
    IF a > b THEN 0 ELSE (10 * DecimalValue(a, b - 1)) + (payload[b] - 48)

NthNumber(k) == DecimalValue(NthUnderscore(k - 1) + 1, NthUnderscore(k) - 1)

\* A frame was built around a text soc_t1_t2_v1_..._vn and given to the
\* decoding of cell info
CellTextDecoded ==
    /\ cpc = "cellDecoded" /\ buf = frame /\ cmd = 15
    /\ Cardinality(UnderscoreAt) >= 2
    /\ \A i \in 1..Len(payload) : payload[i] = 95 \/ payload[i] \in 48..57
    /\ \A k \in 1..(Cardinality(UnderscoreAt) + 1) :
          NthUnderscore(k - 1) + 1 <= NthUnderscore(k) - 1

\* C23: the decoding of cell info, on a frame whose payload is the text
\* soc_t1_t2_v1_..._vn, returns soc, temperature1 and temperature2 equal to
\* the first three numbers and cellVoltages equal to v1..vn in order,
\* whatever the length of the frame.
C23_CellInfoDecodesTheNumbers ==
    CellTextDecoded =>
        parsed.data =
            <<[soc |-> NthNumber(1), temperature1 |-> NthNumber(2),
               temperature2 |-> NthNumber(3),
               cellVoltages |-> [i \in 1..(Cardinality(UnderscoreAt) - 2) |->
                                   NthNumber(i + 3)]]>>

\* The text a segment of the MQTT configuration holds: nothing for a missing
\* or an empty username or password
Segment(field) == IF field = <<>> THEN <<>> ELSE field[1]

\* C24: createMqttConfigPayload(config) with a host and a port that are not
\* empty returns the bytes of the text ssl<.,.>host<.,.>port<.,.>username<.,.>
\* password<.,.>, ssl being "1" or "0", a missing or empty username or
\* password an empty segment, the last separator always there; with an empty
\* host or port it throws and returns nothing.
C24_MqttPayloadText ==
    built # NotBuilt =>
        IF config.host # <<>> /\ config.port # <<>>
        THEN /\ ~built.threw
             /\ bytesToString(built.bytes) =
                   <<IF config.ssl THEN 49 ELSE 48>> \o <<60, 46, 44, 46, 62>>
                   \o config.host \o <<60, 46, 44, 46, 62>>
                   \o config.port \o <<60, 46, 44, 46, 62>>
                   \o Segment(config.username) \o <<60, 46, 44, 46, 62>>
                   \o Segment(config.password) \o <<60, 46, 44, 46, 62>>
             /\ \A i \in 1..Len(built.bytes) : built.bytes[i] \in 0..255
        ELSE /\ built.threw
             /\ built.bytes = <<>>
             /\ built.message = "Host and port are required"

\* {ssl: true, host: "h", port: "1883"} without credentials, encoded as
\* 1<.,.>h<.,.>1883<.,.><.,.><.,.>
C24_Witness ==
    /\ config = [ssl |-> TRUE, host |-> <<104>>, port |-> <<49, 56, 56, 51>>,
                 username |-> <<>>, password |-> <<>>]
    /\ built.bytes = <<49, 60, 46, 44, 46, 62, 104, 60, 46, 44, 46, 62,
                       49, 56, 56, 51, 60, 46, 44, 46, 62,
                       60, 46, 44, 46, 62, 60, 46, 44, 46, 62>>

\* The positions at which the buffer differs from the frame it was made from
ChangedAt == {i \in 1..Len(buf) : buf[i] # frame[i]}

\* C25: a frame that isValidMessage accepts, with one byte changed to another
\* value, is a buffer isValidMessage rejects.
C25_OneChangedByteIsRejected ==
    cpc = "changed" /\ Len(buf) = Len(frame) /\ Cardinality(ChangedAt) = 1
        => ~valid

\* A frame with one payload byte changed, rejected
C25_Witness ==
    /\ cpc = "changed"
    /\ Len(frame) = 7
    /\ ChangedAt = {5}
    /\ buf[5] = frame[5] + 128
    /\ ~valid

\* C26: the session is never connected and connecting at once.
C26_NeverConnectedAndConnecting == ~(connected /\ connecting)

\* C27: commands are dispatched in call order (calls take the request slots
\* in order): no write of an earlier call is issued once a write of a later
\* call has been issued.
C27_WritesInCallOrder ==
    [][\A a \in DOMAIN requests : \A b \in DOMAIN requests :
          (a < b /\ Len(requests'[a].writes) > Len(requests[a].writes))
              => requests[b].writes = <<>>]_vars

\* C28: connect() on a session that is neither connected nor connecting
\* makes it connecting first; the step that emits the connect event emits it
\* once, with the notification handler subscribed, the session connected
\* and not connecting and the call resolved with the device; and whenever a
\* connect or a reconnect event is emitted the session is connected and not
\* connecting.
C28_ConnectingThenSubscribedThenConnected ==
    [][/\ (op' = "connect" /\ ~connected /\ ~connecting) =>
             /\ connecting' /\ ~connected'
             /\ emitted' = <<>>
       /\ "connect" \in Range(emitted') =>
             /\ emitted' = <<"connect">>
             /\ notifRegs' = notifRegs + 1
             /\ statusCharacteristic' # NullCharacteristic
             /\ connected' /\ ~connecting'
             /\ device' # NoDevice
             /\ returned' = <<"resolved", device'>>
       /\ "reconnect" \in Range(emitted') =>
             connected' /\ ~connecting']_vars

\* The events of a notification come as rawData first and then, at most, one
\* typed event, once for each registration of the handler
RawDataFirst(events) ==
    /\ events # <<>>
    /\ events[1] = "rawData"
    /\ \A i \in 1..Len(events) :
          events[i] \in {"runtimeInfo", "deviceInfo", "cellInfo"} =>
              i > 1 /\ events[i - 1] = "rawData"

\* C29: every notification is first emitted as a rawData event, before any
\* typed event for it, also when it parses to unknown or the parser throws.
C29_RawDataBeforeTypedEvent ==
    [][op' = "notify" => RawDataFirst(emitted')]_vars


\* The notifications that parseMessage classifies as unknown or throws on
UnclassifiedNotifications ==
    {value \in Notifications :
        parseMessage(value).threw \/ parseMessage(value).type = UNKNOWN_TYPE}

\* C30: a notification that is classified unknown, or whose parsing throws,
\* emits no typed event and no error event, settles no pending request and
\* changes no connection state.
C30_UnclassifiedNotificationIsSilent ==
    [][op' = "notify" => \A value \in UnclassifiedNotifications :
          Notify(value) =>
              /\ Range(emitted') \subseteq {"rawData"}
              /\ errors' = <<>>
              /\ requests' = requests
              /\ UNCHANGED <<device, commandCharacteristic, statusCharacteristic,
                             connected, connecting, explicitDisconnect,
                             autoReconnect, connectCalls, reconnects>>]_vars

\* An unknown or unparsable notification arrived while a get* call was
\* waiting for its answer, and the call is still waiting
C30_Witness ==
    /\ op = "notify"
    /\ emitted = <<"rawData">>
    /\ connected
    /\ \E i \in DOMAIN requests :
          /\ requests[i].kind \in InfoKinds
          /\ requests[i].listener
          /\ requests[i].promise = "pending"


\* C31: a write that the transport rejects inside sendCommand or sendRawBytes
\* rejects the call with the transport's error and emits exactly one error
\* event; a rejection because the session is not connected and a rejection by
\* the timeout emit no error event.
C31_WriteFailureEmitsOneErrorOtherRejectionsNone ==
    [][/\ op' = "write" =>
            \A slot \in DOMAIN requests :
                WriteDone(slot, FALSE) =>
                    /\ emitted' = <<"error">>
                    /\ errors' = <<"write">>
                    /\ requests'[slot].send = "failed"
                    /\ requests[slot].kind \notin InfoKinds =>
                          requests[slot].promise = "pending"
                    /\ requests[slot].promise = "pending" =>
                          /\ requests'[slot].promise = "rejected"
                          /\ requests'[slot].reason = "write"
       /\ \A i \in DOMAIN requests :
             /\ requests[i].promise # "rejected"
             /\ requests'[i].promise = "rejected"
             /\ requests'[i].reason \in {"Not connected to device", "Command timed out"}
             => /\ "error" \notin Range(emitted')
                /\ errors' = <<>>]_vars

\* A sendRawBytes call rejected by the failure of its write, with one error
\* event
C31_Witness ==
    /\ op = "write"
    /\ emitted = <<"error">>
    /\ errors = <<"write">>
    /\ \E i \in DOMAIN requests :
          /\ requests[i].kind = "rawBytes"
          /\ requests[i].promise = "rejected"
          /\ requests[i].reason = "write"


\* A buffer was parsed and decoded into a RuntimeInfo
RuntimeInfoDecoded ==
    /\ cpc = "parsed"
    /\ ~parsed.threw
    /\ parsed.type = RUNTIME_INFO
    /\ parsed.data # Null

\* The optional fields of the decoded RuntimeInfo, in wire order, each with
\* the number of bytes the buffer must hold for it
ExtensionFields ==
    LET info == parsed.data[1]
    IN  << <<info.deviceSubVersion, 40>>,
           <<info.dailyTotalBatteryCharge, 44>>,
           <<info.dailyTotalBatteryDischarge, 48>>,
           <<info.dailyTotalLoadCharge, 52>>,
           <<info.dailyTotalLoadDischarge, 56>> >>

\* C32: in every decoded RuntimeInfo the optional extension fields form a
\* prefix in wire order, and each is present exactly when the buffer holds all
\* of its bytes: more than 39 bytes for deviceSubVersion, at least 44, 48, 52
\* and 56 bytes for the four counters.
C32_ExtensionFieldsFormAPrefix ==
    RuntimeInfoDecoded =>
        /\ \A k \in 1..5 :
              ExtensionFields[k][1] # Null <=> Len(buf) >= ExtensionFields[k][2]
        /\ \A k \in 2..5 :
              ExtensionFields[k][1] # Null => ExtensionFields[k - 1][1] # Null

\* A RuntimeInfo decoded from a buffer that ends inside the third counter
C32_Witness ==
    /\ RuntimeInfoDecoded
    /\ Len(buf) = 50
    /\ ExtensionFields[3][1] # Null
    /\ ExtensionFields[4][1] = Null


\* The reads of the base layout of parseRuntimeInfo, as <<offset, width>>
BaseLayoutReads ==
    {<<off, 1>> : off \in (0..5) \cup (12..18) \cup {21} \cup (28..32)}
    \cup {<<off, 2>> : off \in {6, 8, 10, 19, 22, 24, 26, 33, 35, 37}}

\* The length of the base layout: the end of its last read
BaseLayoutLength ==
    CHOOSE n \in 0..255 :
        /\ \A read \in BaseLayoutReads : read[1] + read[2] <= n
        /\ \E read \in BaseLayoutReads : read[1] + read[2] = n

\* A buffer was parsed and dispatched to parseRuntimeInfo
RuntimeInfoDispatched ==
    /\ cpc = "parsed"
    /\ ~parsed.threw
    /\ parsed.type = RUNTIME_INFO

\* C33: decoding a RUNTIME_INFO buffer shorter than the 39-byte base layout
\* fails closed: parseRuntimeInfo returns null without throwing, never a
\* partially filled RuntimeInfo, and a RuntimeInfo is decoded only when every
\* read of the base layout lies within the buffer.
C33_ShortRuntimeInfoIsNull ==
    RuntimeInfoDispatched =>
        /\ BaseLayoutLength = 39
        /\ Len(buf) < 39 => parsed.data = Null
        /\ parsed.data # Null =>
              \A read \in BaseLayoutReads : read[1] + read[2] <= Len(buf)

\* A RUNTIME_INFO frame one byte short of the base layout, decoded to null
C33_Witness ==
    /\ RuntimeInfoDispatched
    /\ Len(buf) = 38
    /\ parsed.data = Null


\* A frame of RUNTIME_INFO or DEVICE_INFO that isValidMessage rejects only
\* because of its last byte was parsed
WrongLastByteParsed ==
    /\ cpc = "changedParsed"
    /\ isValidMessage(frame)
    /\ ~valid
    /\ Len(buf) = Len(frame)
    /\ \A i \in 1..(Len(buf) - 1) : buf[i] = frame[i]
    /\ buf[Len(buf)] # frame[Len(frame)]

\* No parse returns the error of the checksum or of the length
NoChecksumOrLengthError ==
    (cpc \in {"parsed", "changedParsed"} /\ ~parsed.threw)
        => parsed.error \notin {CHECKSUM_MISMATCH, INVALID_LENGTH}

\* C34, as the code has it: parseMessage returns neither CHECKSUM_MISMATCH nor
\* INVALID_LENGTH, and a RUNTIME_INFO or DEVICE_INFO frame that isValidMessage
\* rejects only because of its last byte is decoded into a message of its
\* type, unless the buffer holds at least 10 bytes with exactly 3 or 16
\* underscores: then it is decoded as CellInfo.
C34_WrongChecksumIsDecodedUnlessTakenForCellInfo ==
    /\ NoChecksumOrLengthError
    /\ WrongLastByteParsed =>
          /\ ~parsed.threw
          /\ parsed.rawData = buf
          /\ IF Len(buf) >= 10 /\ Underscores \in {3, 16}
             THEN parsed.type = CELL_INFO
             ELSE parsed.type = cmd

\* A device-info frame with a wrong last byte, rejected by isValidMessage and
\* decoded into its pairs by parseMessage
C34_Witness ==
    /\ WrongLastByteParsed
    /\ cmd = DEVICE_INFO
    /\ parsed.type = DEVICE_INFO
    /\ parsed.data = Some(parseDeviceInfo(frame))
    /\ parsed.data # Some({})

\* C34, as stated: every buffer that isValidMessage rejects only because of
\* its last byte is decoded into a typed DeviceInfo or RuntimeInfo message.
C34_WrongChecksumIsDecoded ==
    /\ NoChecksumOrLengthError
    /\ WrongLastByteParsed =>
          /\ ~parsed.threw
          /\ parsed.type = cmd


\* C35: in every reachable state, isConnected() being true implies that the
\* session holds a device handle, a command characteristic and a status
\* characteristic.
C35_ConnectedHoldsItsHandles ==
    connected =>
        /\ device # NoDevice
        /\ commandCharacteristic # NullCharacteristic
        /\ statusCharacteristic # NullCharacteristic


\* The connect() calls of the caller that are in progress
ConnectsInProgress == {i \in 1..MaxConnectCalls : connectCalls[i] # "idle"}

\* The reconnect attempts that have started and not ended
AttemptsInProgress ==
    {i \in 1..MaxReconnects : reconnects[i].pc \notin {"idle", "timer"}}

\* C36: at most one connection-establishment sequence is in progress at a
\* time: a reconnect attempt never runs while a connect() call of the caller
\* is in progress, and never starts while the session is connected.
C36_OneEstablishmentAtATime ==
    [][/\ Cardinality(ConnectsInProgress') + Cardinality(AttemptsInProgress') <= 1
       /\ op' = "timer" => ~connected]_vars


\* disconnect() has just been called during the reconnect delay that
\* followed an unsolicited link loss: the attempt of the slot was scheduled
\* before the call and has not started
DisconnectedDuringDelay(slot) ==
    /\ op = "disconnect"
    /\ reconnects[slot].pc = "timer"
    /\ ~reconnects[slot].afterDisconnectCall

\* C37: when the caller calls disconnect() during the reconnect delay after an
\* unsolicited link loss, the scheduled attempt is cancelled: the attempt does
\* not start and no reconnect event is emitted before the caller calls
\* connect() again.  Stated for the step that follows the call.
C37_DisconnectCancelsScheduledReconnect ==
    [][\A slot \in 1..MaxReconnects :
          DisconnectedDuringDelay(slot) =>
              /\ reconnects'[slot].pc \in {"timer", "idle"}
              /\ "reconnect" \notin Range(emitted')]_vars


\* The number of events of a set among those a step emitted
EmittedOf(events, names) ==
    Cardinality({i \in 1..Len(events) : events[i] \in names})

\* C38: each notification is processed exactly once: it produces exactly one
\* rawData event and at most one typed event, and the notification handler is
\* never registered more than once on the link that delivers notifications.
C38_NotificationProcessedOnce ==
    [][/\ notifRegs' <= 1
       /\ op' = "notify" =>
             /\ EmittedOf(emitted', {"rawData"}) = 1
             /\ EmittedOf(emitted', {"runtimeInfo", "deviceInfo", "cellInfo"}) <= 1]_vars


\* The callbacks registered for an event the step emitted, as the pairs
\* <<event, id>> in the order of their registration
ListenersAtEmission ==
    LET at == SelectSeq(eventListeners,
                        LAMBDA callback : callback.event \in Range(emitted'))
    IN  [i \in 1..Len(at) |-> <<at[i].event, at[i].id>>]

\* C39: an exception thrown by a subscriber does not stop the delivery of the
\* event to the other subscribers registered when it is emitted, does not
\* propagate into the operation that emitted the event, and leaves the
\* connection state as the operation sets it: every callback registered for
\* the event is called once, in the order of registration, no exception
\* leaves _triggerEvent, a connect() that emits connect resolves in a
\* Connected session, and a notification changes no connection state.
C39_ThrowingSubscriberStopsNothing ==
    [][/\ propagated' = FALSE
       /\ delivered' = ListenersAtEmission
       /\ op' = "connected" =>
             /\ connected' /\ ~connecting'
             /\ returned' = <<"resolved", TheDevice>>
       /\ op' = "notify" =>
             UNCHANGED <<device, commandCharacteristic, statusCharacteristic,
                         connected, connecting, explicitDisconnect>>]_vars

\* A rawData event delivered to a callback that removes the next one and
\* throws, then to the removed callback, then to a third
C39_Witness ==
    /\ op = "notify"
    /\ Len(delivered) = 3
    /\ Len(eventListeners) = 2
    /\ eventListeners[1].behaviour = "removesNextAndThrows"
    /\ connected
    /\ ~propagated

=============================================================================
